---- MODULE Spec2Model ----
(***************************************************************************)
(* UnifiedGenerator.generate_all (src/generators/unified_generator.py):    *)
(* the parallel fan-out over the five document generators, the collection  *)
(* of their futures, and the packaging of the produced files in a ZIP.     *)
(***************************************************************************)
EXTENDS Integers, Sequences, FiniteSets, TLC

VARIABLES
    pc,            \* position of generate_all
    data,          \* the field map the caller passed
    llm,           \* the model handle returned by get_llm
    generators,    \* document types whose generator has been constructed
    executor,      \* the ThreadPoolExecutor: "none", "open", "shutdown"
    future,        \* state of each task's future
    calls,         \* how many times each generate_complete was invoked
    taskData,      \* the argument each submitted task received
    waiting,       \* futures as_completed has not yielded yet
    results,       \* the list of outcomes
    files_to_zip,  \* the list of files to archive
    zip_on_disk,   \* the archive _create_zip wrote in output_dir
    ret,           \* what generate_all gave its caller
    it_doc_type,    \* one loop iteration alone: future_to_type[future]
    it_result,     \* one loop iteration alone: what future.result() did
    it_recorded,    \* one loop iteration alone: the outcome appended to results
    ex_pc,         \* position of DocumentDataExtractor.extract_from_file
    ex_args,       \* its arguments, the extractor's llm and the libraries installed
    ex_text,       \* the local text, a str
    ex_result,     \* the local result
    ex_invoked,    \* the collaborators called so far
    ex_ret,        \* what extract_from_file gave its caller
    ex_prompt,     \* text_to_analyze, the text put in the prompt of the model
    extracted_data,  \* st.session_state.extracted_data, by document type
    raw_json,      \* st.session_state[f"{key_prefix}_raw_json"], by key_prefix
    pattern_calls, \* the calls of _extract_with_patterns made in the session, in order
    se_steps,      \* how many button clicks the session has handled
    se_last        \* the last click handled and how it ended

vars == <<pc, data, llm, generators, executor, future, calls, taskData, waiting,
          results, files_to_zip, zip_on_disk, ret, it_doc_type, it_result, it_recorded,
          ex_pc, ex_args, ex_text, ex_result, ex_invoked, ex_ret, ex_prompt,
          extracted_data, raw_json, pattern_calls, se_steps, se_last>>

\* the variables of DocumentDataExtractor, which UnifiedGenerator never touches
extraction == <<ex_pc, ex_args, ex_text, ex_result, ex_invoked, ex_ret, ex_prompt>>

\* the variables of the Streamlit session
session == <<extracted_data, raw_json, pattern_calls, se_steps, se_last>>

\* the variables of the single loop iteration, of the extractor and of the
\* session, which generate_all as a whole leaves alone
aside == <<it_doc_type, it_result, it_recorded, extraction, session>>

(***************************************************************************)
(* Bounds and program constants                                            *)
(***************************************************************************)
\* How many of the tasks may block for ever in a model call.
MaxHung == 1

\* How many of the tasks (the first ones submitted) may return a value that
\* names no file on disk.
MaxOther == 1

\* ThreadPoolExecutor(max_workers=5)
max_workers == 5

\* tasks.items(): the five document types in dict insertion order
TaskOrder == <<"estudios_previos", "analisis_sector", "dts", "certificaciones", "mga_subsidios">>

DocTypes == {TaskOrder[i] : i \in 1..Len(TaskOrder)}

(***************************************************************************)
(* Python values the generators hand back                                  *)
(***************************************************************************)
PyNone == [py |-> "None"]

PyStr(s) == [py |-> "str", val |-> s]

PyList == [py |-> "list"]

PyDict(items) == [py |-> "dict", items |-> items]

\* A path is the sequence of its components; "" is the empty sequence.
EmptyPath == << >>

OutFile(t) == <<"output", t>>

\* A file in another directory whose base name is that of the dts output.
AltFile == <<"tmp", "dts">>

MissingFile == <<"output", "missing">>

\* The files that exist on disk while generate_all runs.
Disk == {OutFile(t) : t \in DocTypes} \cup {AltFile}

\* The tasks that may also name AltFile as their output.
AltTasks == {"mga_subsidios"}

PathsOf(t) == {OutFile(t)} \cup (IF t \in AltTasks THEN {AltFile} ELSE {})

\* What generate_complete of document type t may return: a path string, a
\* result object with a filepath entry (a path, None or an object that is no
\* path), a result object without one, or None.
AllReturns(t) ==
    {PyStr(p) : p \in PathsOf(t) \cup {MissingFile, EmptyPath}}
    \cup {PyDict([filepath |-> v]) :
            v \in {PyStr(p) : p \in PathsOf(t) \cup {MissingFile, EmptyPath}}
                  \cup {PyNone, PyList}}
    \cup {PyDict([content |-> PyStr(OutFile(t))]), PyNone}

\* The returns the five concurrent tasks draw from: the filepath entry that
\* is no path is left to the single iteration.
ReturnsOf(t) == AllReturns(t) \ {PyDict([filepath |-> PyList])}

\* The message of the exception generate_complete of t raises.
ExcOf(t) == <<"failed", t>>

\* The path a returned value names, when it names one.
NamedPath(v) ==
    IF v.py = "str" THEN v.val
    ELSE IF v.py = "dict" /\ "filepath" \in DOMAIN v.items /\ v.items["filepath"].py = "str"
      THEN v.items["filepath"].val
    ELSE EmptyPath

\* The task wrote its file and returned its path, bare or in a result object.
NamesExistingFile(v) == NamedPath(v) \in Disk

(***************************************************************************)
(* data: the field map                                                     *)
(***************************************************************************)
Chars(s) == [py |-> "str", val |-> s]

DataInputs ==
    { [entidad |-> Chars(<<"A">>)],
      [entidad |-> Chars(<<"A">>), municipio |-> Chars(<<" ", "S", "/", "1", "_", " ">>)],
      [entidad |-> Chars(<<"A">>), municipio |-> PyNone] }

\* data.get(key, default)
DictGet(d, key, default) == IF key \in DOMAIN d THEN d[key] ELSE default

Proyecto == Chars(<<"p", "r", "o", "y", "e", "c", "t", "o">>)

Alnum == {"S", "A", "1", "p", "r", "o", "y", "e", "c", "t"}

KeptChar(x) == x \in Alnum \/ x \in {" ", "-", "_"}

RECURSIVE LStrip(_)
LStrip(s) == IF s # << >> /\ Head(s) = " " THEN LStrip(Tail(s)) ELSE s

RECURSIVE RStrip(_)
RStrip(s) ==
    IF s # << >> /\ s[Len(s)] = " " THEN RStrip(SubSeq(s, 1, Len(s) - 1)) ELSE s

\* "".join(x for x in project_name if ...).strip()
SafeName(project_name) == RStrip(LStrip(SelectSeq(project_name, KeptChar)))

\* os.path.basename
Basename(p) == IF p = << >> THEN "" ELSE p[Len(p)]

(***************************************************************************)
(* One iteration of the as_completed loop, as a function                   *)
(***************************************************************************)
\* (mutant) only a bare path string is accepted
FilepathStrOnly(r) == IF r.py = "str" THEN r ELSE PyNone

\* lines 84-88: the filepath taken from the task's return value
Filepath(r) ==
    IF r.py = "str" THEN r
    ELSE IF r.py = "dict" /\ "filepath" \in DOMAIN r.items THEN r.items["filepath"]
    ELSE PyNone

\* Python truthiness of a value
Truthy(v) ==
    CASE v.py = "None" -> FALSE
      [] v.py = "str" -> v.val # EmptyPath
      [] v.py = "int" -> v.val # 0
      [] v.py = "bool" -> v.val
      [] OTHER -> TRUE

\* os.path.exists raises TypeError on a value that is no path
ExistsRaises(v) == v.py \notin {"str"}

Exists(v) == v.py = "str" /\ v.val \in Disk

SuccessOutcome(doc_type, filepath) ==
    [type |-> doc_type, status |-> "success", file |-> filepath]

ErrorOutcome(doc_type, msg) ==
    [type |-> doc_type, status |-> "error", error |-> msg]

\* lines 77-110: the outcome recorded for doc_type; got is what
\* future.result() did: [raised |-> FALSE, value |-> r] or [raised |-> TRUE, exc |-> e]
Outcome(doc_type, got) ==
    IF got.raised THEN ErrorOutcome(doc_type, got.exc)
    ELSE LET filepath == Filepath(got.value) IN
         IF ~Truthy(filepath)
           THEN ErrorOutcome(doc_type, "File not created or invalid return type")
         ELSE IF ExistsRaises(filepath)
           THEN ErrorOutcome(doc_type, "TypeError")
         ELSE IF Exists(filepath)
           THEN SuccessOutcome(doc_type, filepath.val)
         ELSE ErrorOutcome(doc_type, "File not created or invalid return type")

(***************************************************************************)
(* State                                                                    *)
(***************************************************************************)
NoValue == [py |-> "unbound"]

\* no extraction is under way
ExtractorIdle ==
    /\ ex_pc = "idle"
    /\ ex_args = NoValue
    /\ ex_text = NoValue
    /\ ex_result = NoValue
    /\ ex_invoked = {}
    /\ ex_ret = [kind |-> "running"]
    /\ ex_prompt = NoValue

\* src/app.py lines 321-355, init_session_state: the session before any click
SessionIdle ==
    /\ extracted_data = << >>
    /\ raw_json = << >>
    /\ pattern_calls = << >>
    /\ se_steps = 0
    /\ se_last = [handler |-> "none"]

\* generate_all has not begun
Unstarted ==
    /\ pc = "get_llm"
    /\ llm = "none"
    /\ generators = {}
    /\ executor = "none"
    /\ future = [t \in DocTypes |-> "none"]
    /\ calls = [t \in DocTypes |-> 0]
    /\ taskData = [t \in DocTypes |-> [py |-> "unbound"]]
    /\ waiting = {}
    /\ results = << >>
    /\ files_to_zip = << >>
    /\ zip_on_disk = [written |-> FALSE]
    /\ ret = [kind |-> "running"]
    /\ it_doc_type = "none"
    /\ it_result = NoValue
    /\ it_recorded = NoValue

Init ==
    /\ data \in DataInputs
    /\ Unstarted
    /\ ExtractorIdle
    /\ SessionIdle

(***************************************************************************)
(* Lines 41-45: the model handle                                           *)
(***************************************************************************)
\* (mutant) the failure of get_llm reported as a success
LLMInitFailedAsSuccess ==
    [success |-> TRUE, results |-> << >>, error |-> "LLM init failed"]

\* line 45: the result returned when get_llm raises
LLMInitFailed == [success |-> FALSE, results |-> << >>, error |-> "LLM init failed"]

Returned(value) == [kind |-> "returned", value |-> value]

Raised(exc) == [kind |-> "raised", exc |-> exc]

GetLLM ==
    /\ pc = "get_llm"
    /\ \E ok \in BOOLEAN :
         IF ok
           THEN /\ llm' = "handle"
                /\ pc' = "init_generators"
                /\ ret' = ret
           ELSE /\ llm' = llm
                /\ pc' = "done"
                /\ ret' = Returned(LLMInitFailed)
    /\ UNCHANGED <<data, generators, executor, future, calls, taskData, waiting,
                   results, files_to_zip, zip_on_disk, aside>>

(***************************************************************************)
(* Lines 48-54: the generators are constructed in order, outside any try   *)
(***************************************************************************)
InitGenerators ==
    /\ pc = "init_generators"
    /\ \E k \in 0..Len(TaskOrder) :
         /\ generators' = {TaskOrder[i] : i \in 1..k}
         /\ IF k = Len(TaskOrder)
              THEN pc' = "open_pool" /\ ret' = ret
              ELSE pc' = "done" /\ ret' = Raised(<<"constructor", TaskOrder[k + 1]>>)
    /\ UNCHANGED <<data, llm, executor, future, calls, taskData, waiting, results,
                   files_to_zip, zip_on_disk, aside>>

(***************************************************************************)
(* Lines 69-73: the pool and the submissions                               *)
(***************************************************************************)
OpenPool ==
    /\ pc = "open_pool"
    /\ executor' = "open"
    /\ pc' = "submit"
    /\ UNCHANGED <<data, llm, generators, future, calls, taskData, waiting, results,
                   files_to_zip, zip_on_disk, ret, aside>>

Submitted == {t \in DocTypes : future[t] # "none"}

\* (mutant) each task handed a copy of the field map without its municipio
TaskArgumentStripped(d) == [k \in DOMAIN d \ {"municipio"} |-> d[k]]

\* line 71: the argument of func in executor.submit(func, data), the caller's
\* field map itself
TaskArgument(d) == d

\* executor.submit(func, data) for the next entry of tasks.items(); after the
\* last one as_completed takes the futures.
Submit ==
    /\ pc = "submit"
    /\ LET t == TaskOrder[Cardinality(Submitted) + 1] IN
         /\ future' = [future EXCEPT ![t] = "pending"]
         /\ taskData' = [taskData EXCEPT ![t] = TaskArgument(data)]
         /\ IF Cardinality(Submitted) + 1 = Len(TaskOrder)
              THEN pc' = "as_completed" /\ waiting' = DocTypes
              ELSE pc' = "submit" /\ waiting' = waiting
    /\ UNCHANGED <<data, llm, generators, executor, calls, results, files_to_zip,
                   zip_on_disk, ret, aside>>

(***************************************************************************)
(* The worker threads                                                      *)
(***************************************************************************)
Busy == {t \in DocTypes : future[t] \in {"running", "hung"}}

Hung == {t \in DocTypes : future[t] = "hung"}

\* the ways a task ends: it raises, it returns the path of a file it wrote,
\* or it returns anything else
FinishedStates == {"raised", "returned_file", "returned_other"}

OtherTasks == {TaskOrder[i] : i \in 1..MaxOther}

\* (mutant) a task that raised is queued again
WaysOfRequeued(t) == {"raised", "returned_file", "pending"}

WaysOf(t) ==
    {"raised", "returned_file"} \cup (IF t \in OtherTasks THEN {"returned_other"} ELSE {})

Finished == {t \in DocTypes : future[t] \in FinishedStates}

\* (mutant) a pool of a single worker
WorkerFreeSingle == Busy = {}

\* a queued work item is taken as soon as a worker of the pool is free
WorkerFree == Cardinality(Busy) < max_workers

Start(t) ==
    /\ future[t] = "pending"
    /\ executor = "open"
    /\ WorkerFree
    /\ future' = [future EXCEPT ![t] = "running"]
    /\ calls' = [calls EXCEPT ![t] = @ + 1]
    /\ UNCHANGED <<pc, data, llm, generators, executor, taskData, waiting, results,
                   files_to_zip, zip_on_disk, ret, aside>>

\* generate_complete returns or raises
Finish(t) ==
    /\ future[t] = "running"
    /\ \E how \in WaysOf(t) : future' = [future EXCEPT ![t] = how]
    /\ UNCHANGED <<pc, data, llm, generators, executor, calls, taskData, waiting,
                   results, files_to_zip, zip_on_disk, ret, aside>>

\* the model call inside generate_complete blocks for ever
Hang(t) ==
    /\ future[t] = "running"
    /\ Cardinality(Hung) < MaxHung
    /\ future' = [future EXCEPT ![t] = "hung"]
    /\ UNCHANGED <<pc, data, llm, generators, executor, calls, taskData, waiting,
                   results, files_to_zip, zip_on_disk, ret, aside>>

(***************************************************************************)
(* Lines 75-110: the as_completed loop                                     *)
(***************************************************************************)
\* (mutant) every future mapped to the last document type of the loop
FutureToTypeLast(t) == TaskOrder[Len(TaskOrder)]

\* future_to_type[future]
FutureToType(t) == t

\* (mutant) the loop is left at the first error outcome
AfterIterationStopOnError(left, o) ==
    IF left = {} \/ o.status = "error" THEN "exit_with" ELSE "as_completed"

\* where the loop goes after an iteration that recorded outcome o, with the
\* futures left still to yield: on to the next one, whatever o is
AfterIteration(left, o) == IF left = {} THEN "exit_with" ELSE "as_completed"

\* what future.result() does for the finished future of t
Got(t) ==
    IF future[t] = "raised"
      THEN {[raised |-> TRUE, exc |-> ExcOf(t)]}
      ELSE {[raised |-> FALSE, value |-> v] :
              v \in {r \in ReturnsOf(t) :
                       NamesExistingFile(r) <=> future[t] = "returned_file"}}

Collect(t) ==
    /\ pc = "as_completed"
    /\ t \in waiting
    /\ t \in Finished
    /\ \E got \in Got(t) :
         LET o == Outcome(FutureToType(t), got) IN
           /\ results' = Append(results, o)
           /\ files_to_zip' = IF o.status = "success"
                                THEN Append(files_to_zip, o.file)
                                ELSE files_to_zip
           /\ pc' = AfterIteration(waiting \ {t}, o)
    /\ waiting' = waiting \ {t}
    /\ UNCHANGED <<data, llm, generators, executor, future, calls, taskData,
                   zip_on_disk, ret, aside>>

\* (mutant) the pool is not shut down
PoolLeftOpen == "open"

\* the state of the pool after the with block
PoolAfterWith == "shutdown"

\* leaving the with block: executor.shutdown(wait=True) joins the workers
ExitWith ==
    /\ pc = "exit_with"
    /\ Busy = {}
    /\ \A t \in DocTypes : future[t] # "pending"
    /\ executor' = PoolAfterWith
    /\ pc' = "create_zip"
    /\ UNCHANGED <<data, llm, generators, future, calls, taskData, waiting, results,
                   files_to_zip, zip_on_disk, ret, aside>>

(***************************************************************************)
(* Lines 112-134: the archive and the result                               *)
(***************************************************************************)
\* (mutant) the archive is built whatever the list holds
ShouldZipAlways(files) == TRUE

\* line 114: if files_to_zip
ShouldZip(files) == files # << >>

\* (mutant) success computed from the outcomes instead of the files
SuccessFlagAnyOutcome(files) == Len(results) > 0

\* line 118: len(files_to_zip) > 0
SuccessFlag(files) == Len(files) > 0

\* line 127-128
ZipPath(safe_name) == <<"output", "MGA_Documentos", safe_name, "timestamp">>

\* lines 130-132: the entries zipf.write appends, in order
ZipEntries(files) ==
    [i \in 1..Len(files) |-> [arcname |-> Basename(files[i]), file |-> files[i]]]

\* where the I/O of _create_zip may fail: nowhere (0), on opening the archive
\* (-1: no file is created), or on the write of the first file (1: the
\* archive is left on disk without an entry)
IOFailures == {0, -1, 1}

CreateZip ==
    /\ pc = "create_zip"
    /\ pc' = "done"
    /\ IF ~ShouldZip(files_to_zip)
         THEN /\ ret' = Returned([success |-> SuccessFlag(files_to_zip),
                                  results |-> results, zip_file |-> PyNone])
              /\ zip_on_disk' = zip_on_disk
         ELSE LET project_name == DictGet(data, "municipio", Proyecto) IN
              IF project_name.py # "str"
                THEN /\ ret' = Raised(<<"TypeError", "project_name">>)
                     /\ zip_on_disk' = zip_on_disk
                ELSE LET zip_filepath == ZipPath(SafeName(project_name.val)) IN
                     \E fail \in IOFailures :
                       IF fail = 0
                         THEN /\ zip_on_disk' = [written |-> TRUE, path |-> zip_filepath,
                                                 entries |-> ZipEntries(files_to_zip)]
                              /\ ret' = Returned([success |-> SuccessFlag(files_to_zip),
                                                  results |-> results,
                                                  zip_file |-> PyStr(zip_filepath)])
                       ELSE IF fail = -1
                         THEN /\ zip_on_disk' = zip_on_disk
                              /\ ret' = Raised(<<"OSError", "open">>)
                         ELSE /\ zip_on_disk' =
                                   [written |-> TRUE, path |-> zip_filepath,
                                    entries |-> SubSeq(ZipEntries(files_to_zip), 1, fail - 1)]
                              /\ ret' = Raised(<<"OSError", "write">>)
    /\ UNCHANGED <<data, llm, generators, executor, future, calls, taskData, waiting,
                   results, files_to_zip, aside>>

Next ==
    \/ GetLLM
    \/ InitGenerators
    \/ OpenPool
    \/ Submit
    \/ \E t \in DocTypes : Start(t)
    \/ \E t \in DocTypes : Finish(t)
    \/ \E t \in DocTypes : Hang(t)
    \/ \E t \in DocTypes : Collect(t)
    \/ ExitWith
    \/ CreateZip

Spec == Init /\ [][Next]_vars

(***************************************************************************)
(* Reading the result and the archive                                      *)
(***************************************************************************)
HasResult == ret.kind = "returned"

\* the model handle was resolved and generate_all returned its result
ReturnedAfterFanOut == HasResult /\ llm = "handle"

Successes(rs) == {i \in DOMAIN rs : rs[i].status = "success"}

Errors(rs) == {i \in DOMAIN rs : rs[i].status = "error"}

OutcomesOf(rs, t) == {i \in DOMAIN rs : rs[i].type = t}

\* the loop has yielded every future
AllCollected == pc \in {"exit_with", "create_zip", "done"} /\ executor # "none"

\* generate_all ended after the loop
EndedAfterLoop == pc = "done" /\ AllCollected

\* generate_all ended with an exception that _create_zip raised
RaisedInCreateZip ==
    /\ ret.kind = "raised"
    /\ ret.exc \in {<<"TypeError", "project_name">>, <<"OSError", "open">>,
                    <<"OSError", "write">>}

\* what a reader of the archive gets under a name: the last entry written
\* under it
ZipRead(entries, name) ==
    LET at == {i \in DOMAIN entries : entries[i].arcname = name} IN
      IF at = {} THEN << >>
      ELSE entries[CHOOSE i \in at : \A j \in at : j <= i].file

(***************************************************************************)
(* C1: every task that raises is recorded as one error outcome of its own  *)
(* document type carrying its exception, every task that returns a file it *)
(* wrote is recorded as one success outcome, and every task ran once       *)
(* whatever the others did; with one raising task and four files the       *)
(* result has success = true, 4 success outcomes, 1 error outcome and an   *)
(* archive of 4 entries (the one other way generate_all ends then is an    *)
(* exception raised inside _create_zip, after the outcomes were recorded). *)
(***************************************************************************)
C1_FailureIsolated ==
    /\ AllCollected =>
         \A t \in DocTypes :
           /\ calls[t] = 1
           /\ Cardinality(OutcomesOf(results, t)) = 1
           /\ future[t] = "raised" =>
                \A i \in OutcomesOf(results, t) :
                  results[i] = [type |-> t, status |-> "error", error |-> ExcOf(t)]
           /\ future[t] = "returned_file" =>
                \A i \in OutcomesOf(results, t) :
                  /\ results[i].status = "success"
                  /\ results[i].file \in PathsOf(t)
    /\ ( /\ EndedAfterLoop
         /\ Cardinality({t \in DocTypes : future[t] = "raised"}) = 1
         /\ Cardinality({t \in DocTypes : future[t] = "returned_file"}) = 4 )
       => \/ RaisedInCreateZip
          \/ /\ HasResult
             /\ ret.value.success = TRUE
             /\ Cardinality(Successes(ret.value.results)) = 4
             /\ Cardinality(Errors(ret.value.results)) = 1
             /\ zip_on_disk.written
             /\ ret.value.zip_file = PyStr(zip_on_disk.path)
             /\ Len(zip_on_disk.entries) = 4

C1_Witness ==
    /\ ReturnedAfterFanOut
    /\ future["dts"] = "raised"
    /\ \A t \in DocTypes \ {"dts"} : future[t] = "returned_file"
    /\ Len(zip_on_disk.entries) = 4

(***************************************************************************)
(* C2: in every result generate_all returns, success is true exactly when  *)
(* some outcome of the result list has status success.                     *)
(***************************************************************************)
C2_SuccessIffSomeSuccess ==
    HasResult => (ret.value.success <=> Successes(ret.value.results) # {})

C2_Witness ==
    /\ HasResult
    /\ ret.value.success
    /\ Cardinality(Successes(ret.value.results)) = 2
    /\ Cardinality(Errors(ret.value.results)) = 3

(***************************************************************************)
(* C3: when the model handle is resolved, the returned list holds exactly  *)
(* one outcome per document type, and each outcome carries the type of the *)
(* task whose file or exception it records.                                *)
(***************************************************************************)
C3_OneOutcomePerType ==
    ReturnedAfterFanOut =>
      LET rs == ret.value.results IN
        /\ Len(rs) = Cardinality(DocTypes)
        /\ \A t \in DocTypes : Cardinality(OutcomesOf(rs, t)) = 1
        /\ \A i \in DOMAIN rs :
             /\ rs[i].type \in DocTypes
             /\ rs[i].status = "success" => rs[i].file \in PathsOf(rs[i].type)
             /\ (rs[i].status = "error" /\ rs[i].error \in {ExcOf(t) : t \in DocTypes})
                  => rs[i].error = ExcOf(rs[i].type)

\* the outcomes in the reverse of the submission order
C3_Witness ==
    /\ ReturnedAfterFanOut
    /\ \A i \in 1..Len(TaskOrder) :
         ret.value.results[i].type = TaskOrder[Len(TaskOrder) + 1 - i]

(***************************************************************************)
(* C4: when generate_all returns its result no task is pending or running  *)
(* and the pool is not open; after a fan-out every task has finished and   *)
(* the pool has been shut down.                                            *)
(***************************************************************************)
C4_ReturnAfterAllTerminal ==
    HasResult =>
      /\ \A t \in DocTypes : future[t] \notin {"pending", "running", "hung"}
      /\ executor # "open"
      /\ llm = "handle" => (Finished = DocTypes /\ executor = "shutdown")

C4_Witness ==
    /\ ReturnedAfterFanOut
    /\ Finished = DocTypes
    /\ executor = "shutdown"

(***************************************************************************)
(* C5: no archive is ever written while no task has succeeded; when the    *)
(* loop has ended without a success outcome generate_all returns success = *)
(* false, five error outcomes and zip_file = None; when it has ended with  *)
(* a success outcome _create_zip is called, and the result returned names  *)
(* the archive written (the one other way generate_all ends then is an     *)
(* exception raised inside _create_zip).                                   *)
(***************************************************************************)
C5_ArchiveIffSuccess ==
    /\ zip_on_disk.written => files_to_zip # << >> /\ Successes(results) # {}
    /\ ReturnedAfterFanOut =>
         /\ ret.value.zip_file # PyNone <=> Successes(ret.value.results) # {}
         /\ ret.value.zip_file # PyNone <=> zip_on_disk.written
    /\ (EndedAfterLoop /\ Successes(results) = {}) =>
         /\ HasResult
         /\ ret.value.success = FALSE
         /\ ret.value.results = results
         /\ Cardinality(Errors(ret.value.results)) = 5
         /\ ret.value.zip_file = PyNone
         /\ ~zip_on_disk.written
    /\ (EndedAfterLoop /\ Successes(results) # {}) =>
         \/ RaisedInCreateZip
         \/ /\ HasResult
            /\ ret.value.success = TRUE
            /\ zip_on_disk.written
            /\ ret.value.zip_file = PyStr(zip_on_disk.path)

C5_Witness ==
    /\ ReturnedAfterFanOut
    /\ Successes(ret.value.results) = {}
    /\ Cardinality(Errors(ret.value.results)) = 5
    /\ ~zip_on_disk.written

(***************************************************************************)
(* C6: the archive holds exactly the files of the success outcomes, each   *)
(* to be read under its base name.                                         *)
(***************************************************************************)
C6_ArchiveHoldsEverySuccess ==
    (ReturnedAfterFanOut /\ zip_on_disk.written) =>
      LET rs == ret.value.results
          es == zip_on_disk.entries IN
        /\ \A i \in Successes(rs) : ZipRead(es, Basename(rs[i].file)) = rs[i].file
        /\ \A k \in DOMAIN es :
             \E i \in Successes(rs) :
               es[k] = [arcname |-> Basename(rs[i].file), file |-> rs[i].file]

(***************************************************************************)
(* C7: generate_all never lets an exception reach its caller.              *)
(***************************************************************************)
C7_NeverRaises == ret.kind # "raised"

(***************************************************************************)
(* C8: when get_llm raises, generate_all returns success = false with no   *)
(* outcome; no generator is constructed, no pool is opened, no task is     *)
(* submitted or run, and no archive is written.                            *)
(***************************************************************************)
C8_ShortCircuit ==
    (pc = "done" /\ llm = "none") =>
      /\ HasResult
      /\ ret.value.success = FALSE
      /\ ret.value.results = << >>
      /\ "zip_file" \notin DOMAIN ret.value
      /\ generators = {}
      /\ executor = "none"
      /\ \A t \in DocTypes : future[t] = "none" /\ calls[t] = 0
      /\ results = << >> /\ files_to_zip = << >>
      /\ ~zip_on_disk.written

C8_Witness == pc = "done" /\ llm = "none" /\ HasResult

\* the steps a future takes: queued at submit, taken by a worker, then ended
\* by a return or an exception, or blocked in its call for ever
C11_Steps ==
    {<<"none", "pending">>, <<"pending", "running">>, <<"running", "hung">>}
    \cup {<<"running", f>> : f \in FinishedStates}

(***************************************************************************)
(* C11: within one generate_all call the generation callable of a task is  *)
(* invoked once at most, and exactly once when the task has left the       *)
(* queue; a future only moves none -> pending -> running -> returned or    *)
(* raised (or blocks in its call), an ended future never changes and a     *)
(* task that raised is not queued or called again.                         *)
(***************************************************************************)
C11_InvokedOnce ==
    /\ [](\A t \in DocTypes :
           /\ calls[t] <= 1
           /\ calls[t] = 1 <=> future[t] \in FinishedStates \cup {"running", "hung"})
    /\ [][\A t \in DocTypes :
           /\ future'[t] # future[t] => <<future[t], future'[t]>> \in C11_Steps
           /\ future[t] \in FinishedStates => future'[t] = future[t] /\ calls'[t] = calls[t]
           /\ calls'[t] \in {calls[t], calls[t] + 1}]_vars

C11_Witness ==
    /\ pc = "done"
    /\ HasResult
    /\ \E t \in DocTypes : future[t] = "raised" /\ calls[t] = 1
    /\ \E t \in DocTypes : future[t] = "returned_file" /\ calls[t] = 1

(***************************************************************************)
(* C12: the field map of the caller is never changed by generate_all, and  *)
(* every submitted task was handed that same map: each task sees every     *)
(* field, and no other, with the value the caller supplied, whatever the   *)
(* order in which the tasks run.                                           *)
(***************************************************************************)
C12_SharedReadOnly ==
    /\ [](\A t \in Submitted :
           /\ taskData[t] = data
           /\ DOMAIN taskData[t] = DOMAIN data
           /\ \A k \in DOMAIN data : taskData[t][k] = data[k])
    /\ [][data' = data /\ \A t \in Submitted : taskData'[t] = taskData[t]]_vars

C12_Witness ==
    /\ Submitted = DocTypes
    /\ "municipio" \in DOMAIN data
    /\ \E t \in DocTypes : future[t] = "running"
    /\ \E t \in DocTypes : future[t] \in FinishedStates
    /\ \A t \in DocTypes : taskData[t] = data

(***************************************************************************)
(* One iteration of the loop alone (lines 76-110), on every return shape   *)
(***************************************************************************)
IterationInputs ==
    {[raised |-> TRUE, exc |-> ExcOf(t)] : t \in DocTypes}
    \cup {[raised |-> FALSE, value |-> v] : v \in UNION {AllReturns(t) : t \in DocTypes}}

IterInit == Init

IterStart ==
    /\ it_doc_type = "none"
    /\ it_doc_type' \in DocTypes
    /\ it_result' \in IterationInputs
    /\ it_recorded' = it_recorded
    /\ UNCHANGED <<pc, data, llm, generators, executor, future, calls, taskData,
                   waiting, results, files_to_zip, zip_on_disk, ret, extraction, session>>

IterBody ==
    /\ it_doc_type # "none"
    /\ it_recorded = NoValue
    /\ it_recorded' = Outcome(it_doc_type, it_result)
    /\ UNCHANGED <<pc, data, llm, generators, executor, future, calls, taskData,
                   waiting, results, files_to_zip, zip_on_disk, ret, it_doc_type, it_result,
                   extraction, session>>

IterNext == IterStart \/ IterBody

IterSpec == IterInit /\ [][IterNext]_vars

(***************************************************************************)
(* generate_all under fair scheduling: the orchestrator thread and the     *)
(* workers keep running, and a task that does not hang returns or raises   *)
(***************************************************************************)
LiveInit == Init /\ "municipio" \notin DOMAIN data

\* every step but the hanging of a model call
Progress ==
    \/ GetLLM
    \/ InitGenerators
    \/ OpenPool
    \/ Submit
    \/ \E t \in DocTypes : Start(t)
    \/ \E t \in DocTypes : Finish(t)
    \/ \E t \in DocTypes : Collect(t)
    \/ ExitWith
    \/ CreateZip

\* as long as the orchestrator or a worker can take a step, one is taken
Fairness == WF_vars(Progress)

FairSpec == LiveInit /\ [][Next]_vars /\ Fairness

\* the returns the orchestrator is to accept
C9_Accepts(got) ==
    /\ ~got.raised
    /\ \/ /\ got.value.py = "str"
          /\ got.value.val # EmptyPath
          /\ got.value.val \in Disk
       \/ /\ got.value.py = "dict"
          /\ "filepath" \in DOMAIN got.value.items
          /\ got.value.items["filepath"].py = "str"
          /\ got.value.items["filepath"].val # EmptyPath
          /\ got.value.items["filepath"].val \in Disk

(***************************************************************************)
(* C9: the return value of a task is recorded as a success outcome exactly *)
(* when it is a path string, or a result object with a filepath entry that *)
(* is a path string, and that path is not empty and is a file on disk;     *)
(* every other return, and an exception, is recorded as an error outcome   *)
(* with a message.                                                         *)
(***************************************************************************)
C9_SuccessIffFileNamed ==
    it_recorded # NoValue =>
      /\ it_recorded.type = it_doc_type
      /\ it_recorded.status \in {"success", "error"}
      /\ it_recorded.status = "success" <=> C9_Accepts(it_result)
      /\ it_recorded.status = "success" => it_recorded.file = NamedPath(it_result.value)
      /\ it_recorded.status = "error" =>
           /\ DOMAIN it_recorded = {"type", "status", "error"}
           /\ it_recorded.error # ""

C9_Witness ==
    /\ it_recorded # NoValue
    /\ it_recorded.status = "error"
    /\ it_result = [raised |-> FALSE,
                    value |-> PyDict([filepath |-> PyStr(MissingFile)])]

\* generate_all ended before the pool was opened, or every task has ended
\* or hangs
C10_AllStartedOrEnded ==
    \/ pc = "done" /\ executor = "none"
    \/ \A t \in DocTypes : future[t] \in FinishedStates \cup {"hung"}

(***************************************************************************)
(* C10: a submitted task never waits for a worker, and whichever task     *)
(* hangs, once the pool is open every task is started and ends, or hangs   *)
(* in its own call: the run comes to rest with no task pending or running. *)
(***************************************************************************)
C10_HungTaskStallsNoSibling ==
    /\ [](\A t \in DocTypes : future[t] = "pending" => ENABLED Start(t))
    /\ <>[]C10_AllStartedOrEnded

C10_Witness ==
    \E h \in DocTypes :
      /\ future[h] = "hung"
      /\ \A t \in DocTypes \ {h} : future[t] \in FinishedStates

(***************************************************************************)
(* DocumentDataExtractor (src/extractors/document_data_extractor.py).      *)
(* A string is the sequence of its characters, one character an element;   *)
(* an accented letter is the element made of the letter and an apostrophe. *)
(***************************************************************************)
\* Op applied to the value of e, a string the code holds in one variable and
\* computes once
Once(Op(_), e) == CHOOSE r \in {Op(x) : x \in {e}} : TRUE

\* the class \s of re, str.isspace
IsSpace(c) == c \in {" ", "\n", "\t"}

RECURSIVE StripLeft(_)
StripLeft(s) == IF s # << >> /\ IsSpace(Head(s)) THEN StripLeft(Tail(s)) ELSE s

RECURSIVE StripRight(_)
StripRight(s) ==
    IF s # << >> /\ IsSpace(s[Len(s)]) THEN StripRight(SubSeq(s, 1, Len(s) - 1)) ELSE s

\* str.strip()
StrStrip(s) == StripRight(StripLeft(s))

RECURSIVE Join(_, _)
\* sep.join(parts)
Join(sep, parts) ==
    IF parts = << >> THEN << >>
    ELSE IF Len(parts) = 1 THEN parts[1]
    ELSE parts[1] \o sep \o Join(sep, Tail(parts))

RECURSIVE Concat(_)
\* the lists of a list of lists, one after the other
Concat(lists) == IF lists = << >> THEN << >> ELSE Head(lists) \o Concat(Tail(lists))

NL == <<"\n">>

(***************************************************************************)
(* Lines 142-225: text extraction.  A library is absent (its import at     *)
(* lines 13-38 failed and left None), or present; a present library reads  *)
(* the file through, or raises on opening it (fails = 0) or on its k-th    *)
(* item (fails = k).                                                       *)
(***************************************************************************)
\* the exception classes the libraries raise, all subclasses of Exception
ExceptionClasses == {"RuntimeError", "ValueError"}

\* (mutant) a handler that catches ValueError alone
CaughtValueErrorOnly(exc) == exc = "ValueError"

\* except Exception as e:
Caught(exc) == exc \in ExceptionClasses

Absent == [present |-> FALSE, fails |-> -1, exc |-> "ValueError"]

Sound == [present |-> TRUE, fails |-> -1, exc |-> "ValueError"]

FailsAt(k) ==
    [present |-> TRUE, fails |-> k, exc |-> IF k = 0 THEN "RuntimeError" ELSE "ValueError"]

\* One try block of a text extractor: the library opens the file, walks its
\* items appending to the list text_parts, and the joined list is returned.
\* What the items reached before an exception appended stays in the list.
TryBackend(b, items, Parts(_), text_parts) ==
    IF ~b.present
      THEN [kind |-> "skipped", exc |-> b.exc, text_parts |-> text_parts]
    ELSE IF b.fails \in 0..Len(items)
      THEN [kind |-> IF Caught(b.exc) THEN "caught" ELSE "raised", exc |-> b.exc,
            text_parts |-> text_parts \o Parts(SubSeq(items, 1, b.fails - 1))]
    ELSE [kind |-> "returned", exc |-> b.exc, text_parts |-> text_parts \o Parts(items)]

\* the extractors with two libraries: the second is tried when the first is
\* absent or raised, on the same text_parts list; "" when neither returned
FirstThenSecond(first, second) ==
    IF first.kind = "returned" THEN Returned(Join(NL, first.text_parts))
    ELSE IF first.kind = "raised" THEN Raised(first.exc)
    ELSE IF second.kind = "returned" THEN Returned(Join(NL, second.text_parts))
    ELSE IF second.kind = "raised" THEN Raised(second.exc)
    ELSE Returned(<< >>)

\* lines 149-151: text_parts.append(page.get_text()) for every page
FitzParts(pages) == pages

\* lines 161-164: page.extract_text(), appended when it is not empty
PdfplumberParts(pages) == SelectSeq(pages, LAMBDA t : t # << >>)

\* lines 142-169
ExtractPdfText(pages, libs) ==
    LET first == TryBackend(libs.fitz, pages, FitzParts, << >>) IN
    FirstThenSecond(first,
                    TryBackend(libs.pdfplumber, pages, PdfplumberParts, first.text_parts))

\* " | ".join(...) of the cells given
Bar == <<" ", "|", " ">>

\* line 187: the cells of a table row stripped, the blank ones left out
DocxRowText(cells) ==
    SelectSeq([i \in 1..Len(cells) |-> StrStrip(cells[i])], LAMBDA c : c # << >>)

\* lines 180-189: a paragraph is appended when it is not blank, the joined
\* cells of a table row when one of them is not blank
DocxPart(item) ==
    IF item.what = "paragraph"
      THEN IF StrStrip(item.text) # << >> THEN <<item.text>> ELSE << >>
    ELSE IF DocxRowText(item.cells) # << >> THEN <<Join(Bar, DocxRowText(item.cells))>>
    ELSE << >>

DocxParts(items) == Concat([i \in 1..Len(items) |-> DocxPart(items[i])])

\* lines 171-194: the paragraphs, then the rows of the tables; "" when
\* python-docx is absent or raises
ExtractDocxText(items, libs) ==
    LET only == TryBackend(libs.docx, items, DocxParts, << >>) IN
    IF only.kind = "returned" THEN Returned(Join(NL, only.text_parts))
    ELSE IF only.kind = "raised" THEN Raised(only.exc)
    ELSE Returned(<< >>)

\* repr of a cell in the list a column prints: a string in quotes, an empty
\* cell as nan
CellRepr(cell) == IF cell.py = "str" THEN <<"'">> \o cell.val \o <<"'">> ELSE <<"n", "a", "n">>

\* str(cell)
CellStr(cell) == IF cell.py = "str" THEN cell.val ELSE <<"N", "o", "n", "e">>

\* lines 205-208: f"{col}: {df[col].tolist()}" of column c of a sheet whose
\* first row holds the column names
ColumnLine(rows, c) ==
    CellStr(rows[1][c]) \o <<":", " ", "[">> \o
    Join(<<",", " ">>, [r \in 1..(Len(rows) - 1) |-> CellRepr(rows[r + 1][c])]) \o <<"]">>

PandasSheet(sheet) ==
    IF sheet.rows = << >> THEN << >>
    ELSE [c \in 1..Len(sheet.rows[1]) |-> ColumnLine(sheet.rows, c)]

\* lines 203-208
PandasParts(sheets) == Concat([i \in 1..Len(sheets) |-> PandasSheet(sheets[i])])

\* lines 218-220: " | ".join(str(cell) for cell in row if cell), appended
\* when the row has such a cell
OpenpyxlRow(row) ==
    LET row_text == [i \in 1..Len(SelectSeq(row, Truthy)) |->
                       CellStr(SelectSeq(row, Truthy)[i])]
    IN IF row_text # << >> THEN <<Join(Bar, row_text)>> ELSE << >>

OpenpyxlSheet(sheet) == Concat([r \in 1..Len(sheet.rows) |-> OpenpyxlRow(sheet.rows[r])])

\* lines 215-221
OpenpyxlParts(sheets) == Concat([i \in 1..Len(sheets) |-> OpenpyxlSheet(sheets[i])])

\* lines 196-225
ExtractXlsxText(sheets, libs) ==
    LET first == TryBackend(libs.pandas, sheets, PandasParts, << >>) IN
    FirstThenSecond(first,
                    TryBackend(libs.openpyxl, sheets, OpenpyxlParts, first.text_parts))

(***************************************************************************)
(* Lines 227-248: the pattern extractor                                    *)
(***************************************************************************)
\* lines 45-89: for each document type its fields in declaration order, each
\* with its keywords in declaration order
FIELD_MAPPINGS ==
    [estudios_previos |-> <<
        \* entidad: entidad, entidad contratante, institution
        [field |-> "entidad", keywords |-> <<
            <<"e", "n", "t", "i", "d", "a", "d">>,
            <<"e", "n", "t", "i", "d", "a", "d", " ", "c", "o", "n", "t", "r", "a", "t", "a", "n", "t", "e">>,
            <<"i", "n", "s", "t", "i", "t", "u", "t", "i", "o", "n">> >>],
        \* objeto: objeto, objeto contractual, objeto del contrato
        [field |-> "objeto", keywords |-> <<
            <<"o", "b", "j", "e", "t", "o">>,
            <<"o", "b", "j", "e", "t", "o", " ", "c", "o", "n", "t", "r", "a", "c", "t", "u", "a", "l">>,
            <<"o", "b", "j", "e", "t", "o", " ", "d", "e", "l", " ", "c", "o", "n", "t", "r", "a", "t", "o">> >>],
        \* presupuesto: presupuesto, valor, monto, valor estimado
        [field |-> "presupuesto", keywords |-> <<
            <<"p", "r", "e", "s", "u", "p", "u", "e", "s", "t", "o">>,
            <<"v", "a", "l", "o", "r">>,
            <<"m", "o", "n", "t", "o">>,
            <<"v", "a", "l", "o", "r", " ", "e", "s", "t", "i", "m", "a", "d", "o">> >>],
        \* plazo: plazo, duracio'n, tiempo de ejecucio'n
        [field |-> "plazo", keywords |-> <<
            <<"p", "l", "a", "z", "o">>,
            <<"d", "u", "r", "a", "c", "i", "o'", "n">>,
            <<"t", "i", "e", "m", "p", "o", " ", "d", "e", " ", "e", "j", "e", "c", "u", "c", "i", "o'", "n">> >>],
        \* modalidad: modalidad, modalidad de seleccio'n
        [field |-> "modalidad", keywords |-> <<
            <<"m", "o", "d", "a", "l", "i", "d", "a", "d">>,
            <<"m", "o", "d", "a", "l", "i", "d", "a", "d", " ", "d", "e", " ", "s", "e", "l", "e", "c", "c", "i", "o'", "n">> >>],
        \* sector: sector, a'rea
        [field |-> "sector", keywords |-> <<
            <<"s", "e", "c", "t", "o", "r">>,
            <<"a'", "r", "e", "a">> >>],
        \* descripcion: descripcio'n, justificacio'n, necesidad
        [field |-> "descripcion", keywords |-> <<
            <<"d", "e", "s", "c", "r", "i", "p", "c", "i", "o'", "n">>,
            <<"j", "u", "s", "t", "i", "f", "i", "c", "a", "c", "i", "o'", "n">>,
            <<"n", "e", "c", "e", "s", "i", "d", "a", "d">> >>] >>,
     analisis_sector |-> <<
        \* sector: sector, sector econo'mico
        [field |-> "sector", keywords |-> <<
            <<"s", "e", "c", "t", "o", "r">>,
            <<"s", "e", "c", "t", "o", "r", " ", "e", "c", "o", "n", "o'", "m", "i", "c", "o">> >>],
        \* entidad: entidad, entidad contratante
        [field |-> "entidad", keywords |-> <<
            <<"e", "n", "t", "i", "d", "a", "d">>,
            <<"e", "n", "t", "i", "d", "a", "d", " ", "c", "o", "n", "t", "r", "a", "t", "a", "n", "t", "e">> >>],
        \* objeto: objeto, objeto a contratar
        [field |-> "objeto", keywords |-> <<
            <<"o", "b", "j", "e", "t", "o">>,
            <<"o", "b", "j", "e", "t", "o", " ", "a", " ", "c", "o", "n", "t", "r", "a", "t", "a", "r">> >>],
        \* valor_estimado: valor, presupuesto, valor estimado
        [field |-> "valor_estimado", keywords |-> <<
            <<"v", "a", "l", "o", "r">>,
            <<"p", "r", "e", "s", "u", "p", "u", "e", "s", "t", "o">>,
            <<"v", "a", "l", "o", "r", " ", "e", "s", "t", "i", "m", "a", "d", "o">> >>] >>,
     dts |-> <<
        \* municipio: municipio, ciudad
        [field |-> "municipio", keywords |-> <<
            <<"m", "u", "n", "i", "c", "i", "p", "i", "o">>,
            <<"c", "i", "u", "d", "a", "d">> >>],
        \* departamento: departamento
        [field |-> "departamento", keywords |-> <<
            <<"d", "e", "p", "a", "r", "t", "a", "m", "e", "n", "t", "o">> >>],
        \* entidad: entidad
        [field |-> "entidad", keywords |-> <<
            <<"e", "n", "t", "i", "d", "a", "d">> >>],
        \* proyecto: proyecto, nombre del proyecto
        [field |-> "proyecto", keywords |-> <<
            <<"p", "r", "o", "y", "e", "c", "t", "o">>,
            <<"n", "o", "m", "b", "r", "e", " ", "d", "e", "l", " ", "p", "r", "o", "y", "e", "c", "t", "o">> >>],
        \* valor: valor, presupuesto, costo total
        [field |-> "valor", keywords |-> <<
            <<"v", "a", "l", "o", "r">>,
            <<"p", "r", "e", "s", "u", "p", "u", "e", "s", "t", "o">>,
            <<"c", "o", "s", "t", "o", " ", "t", "o", "t", "a", "l">> >>] >>,
     certificaciones |-> <<
        \* nombre_proyecto: proyecto, nombre del proyecto
        [field |-> "nombre_proyecto", keywords |-> <<
            <<"p", "r", "o", "y", "e", "c", "t", "o">>,
            <<"n", "o", "m", "b", "r", "e", " ", "d", "e", "l", " ", "p", "r", "o", "y", "e", "c", "t", "o">> >>],
        \* municipio: municipio
        [field |-> "municipio", keywords |-> <<
            <<"m", "u", "n", "i", "c", "i", "p", "i", "o">> >>],
        \* departamento: departamento
        [field |-> "departamento", keywords |-> <<
            <<"d", "e", "p", "a", "r", "t", "a", "m", "e", "n", "t", "o">> >>],
        \* valor: valor, presupuesto
        [field |-> "valor", keywords |-> <<
            <<"v", "a", "l", "o", "r">>,
            <<"p", "r", "e", "s", "u", "p", "u", "e", "s", "t", "o">> >>],
        \* responsable: responsable, formulador, secretario
        [field |-> "responsable", keywords |-> <<
            <<"r", "e", "s", "p", "o", "n", "s", "a", "b", "l", "e">>,
            <<"f", "o", "r", "m", "u", "l", "a", "d", "o", "r">>,
            <<"s", "e", "c", "r", "e", "t", "a", "r", "i", "o">> >>] >>,
     mga_subsidios |-> <<
        \* municipio: municipio, ciudad
        [field |-> "municipio", keywords |-> <<
            <<"m", "u", "n", "i", "c", "i", "p", "i", "o">>,
            <<"c", "i", "u", "d", "a", "d">> >>],
        \* departamento: departamento
        [field |-> "departamento", keywords |-> <<
            <<"d", "e", "p", "a", "r", "t", "a", "m", "e", "n", "t", "o">> >>],
        \* entidad: entidad, alcaldi'a
        [field |-> "entidad", keywords |-> <<
            <<"e", "n", "t", "i", "d", "a", "d">>,
            <<"a", "l", "c", "a", "l", "d", "i'", "a">> >>],
        \* bpin: bpin, co'digo bpin
        [field |-> "bpin", keywords |-> <<
            <<"b", "p", "i", "n">>,
            <<"c", "o'", "d", "i", "g", "o", " ", "b", "p", "i", "n">> >>],
        \* nombre_proyecto: proyecto, nombre del proyecto, ti'tulo
        [field |-> "nombre_proyecto", keywords |-> <<
            <<"p", "r", "o", "y", "e", "c", "t", "o">>,
            <<"n", "o", "m", "b", "r", "e", " ", "d", "e", "l", " ", "p", "r", "o", "y", "e", "c", "t", "o">>,
            <<"t", "i'", "t", "u", "l", "o">> >>],
        \* valor_total: valor, valor total, presupuesto, monto
        [field |-> "valor_total", keywords |-> <<
            <<"v", "a", "l", "o", "r">>,
            <<"v", "a", "l", "o", "r", " ", "t", "o", "t", "a", "l">>,
            <<"p", "r", "e", "s", "u", "p", "u", "e", "s", "t", "o">>,
            <<"m", "o", "n", "t", "o">> >>],
        \* duracion: duracio'n, plazo, di'as
        [field |-> "duracion", keywords |-> <<
            <<"d", "u", "r", "a", "c", "i", "o'", "n">>,
            <<"p", "l", "a", "z", "o">>,
            <<"d", "i'", "a", "s">> >>],
        \* responsable: responsable, formulador, secretario
        [field |-> "responsable", keywords |-> <<
            <<"r", "e", "s", "p", "o", "n", "s", "a", "b", "l", "e">>,
            <<"f", "o", "r", "m", "u", "l", "a", "d", "o", "r">>,
            <<"s", "e", "c", "r", "e", "t", "a", "r", "i", "o">> >>],
        \* cargo: cargo, puesto
        [field |-> "cargo", keywords |-> <<
            <<"c", "a", "r", "g", "o">>,
            <<"p", "u", "e", "s", "t", "o">> >>],
        \* plan_nacional: plan nacional, pnd
        [field |-> "plan_nacional", keywords |-> <<
            <<"p", "l", "a", "n", " ", "n", "a", "c", "i", "o", "n", "a", "l">>,
            <<"p", "n", "d">> >>],
        \* plan_departamental: plan departamental
        [field |-> "plan_departamental", keywords |-> <<
            <<"p", "l", "a", "n", " ", "d", "e", "p", "a", "r", "t", "a", "m", "e", "n", "t", "a", "l">> >>],
        \* plan_municipal: plan municipal, pdm
        [field |-> "plan_municipal", keywords |-> <<
            <<"p", "l", "a", "n", " ", "m", "u", "n", "i", "c", "i", "p", "a", "l">>,
            <<"p", "d", "m">> >>] >> ]

\* the characters str.lower() changes, each with its lower-case form
LowerCase ==
    ("A" :> "a") @@ ("B" :> "b") @@ ("C" :> "c") @@ ("D" :> "d")
    @@ ("E" :> "e") @@ ("F" :> "f") @@ ("G" :> "g") @@ ("H" :> "h")
    @@ ("I" :> "i") @@ ("J" :> "j") @@ ("K" :> "k") @@ ("L" :> "l")
    @@ ("M" :> "m") @@ ("N" :> "n") @@ ("O" :> "o") @@ ("P" :> "p")
    @@ ("Q" :> "q") @@ ("R" :> "r") @@ ("S" :> "s") @@ ("T" :> "t")
    @@ ("U" :> "u") @@ ("V" :> "v") @@ ("W" :> "w") @@ ("X" :> "x")
    @@ ("Y" :> "y") @@ ("Z" :> "z") @@ ("A'" :> "a'") @@ ("E'" :> "e'")
    @@ ("I'" :> "i'") @@ ("O'" :> "o'") @@ ("U'" :> "u'")

\* str.lower() of one character
Lower(c) == IF c \in DOMAIN LowerCase THEN LowerCase[c] ELSE c

\* text.lower()
StrLower(s) == [i \in 1..Len(s) |-> Lower(s[i])]

\* value[:500]
MaxValueLength == 500

\* the keyword, a literal of the pattern, stands in s at position i
\* (re.IGNORECASE: letters compared without their case)
KeywordAt(keyword, s, i) ==
    /\ i + Len(keyword) - 1 <= Len(s)
    /\ \A k \in 1..Len(keyword) : Lower(s[i + k - 1]) = Lower(keyword[k])

RECURSIVE SpaceRun(_, _)
\* how many characters of \s stand in s from position j on
SpaceRun(s, j) == IF j <= Len(s) /\ IsSpace(s[j]) THEN 1 + SpaceRun(s, j + 1) ELSE 0

\* The ways \s*[:\-]?\s* matches from position j with the group (.+?) able
\* to begin after it: a characters of \s, c separators (0 or 1), b characters
\* of \s, and then a character that "." matches, any but the newline.
Openings(s, j) ==
    UNION { UNION { { <<a, c, b>> : b \in { x \in 0..SpaceRun(s, j + a + c) :
                                             /\ j + a + c + x <= Len(s)
                                             /\ s[j + a + c + x] # "\n" } }
                    : c \in { y \in {0, 1} :
                                y = 1 => j + a <= Len(s) /\ s[j + a] \in {":", "-"} } }
            : a \in 0..SpaceRun(s, j) }

\* the backtracking order of the greedy quantifiers: the longest first run,
\* then the separator taken, then the longest second run
TriedBefore(o, p) ==
    \/ o[1] > p[1]
    \/ o[1] = p[1] /\ o[2] > p[2]
    \/ o[1] = p[1] /\ o[2] = p[2] /\ o[3] >= p[3]

Opening(s, j) == CHOOSE o \in Openings(s, j) : \A p \in Openings(s, j) : TriedBefore(o, p)

\* where the lazy (.+?) begun at k stops: before the next newline or at the
\* end of s
LineEnd(s, k) ==
    LET newlines == {j \in k + 1..Len(s) : s[j] = "\n"} IN
    IF newlines # {} THEN (CHOOSE j \in newlines : \A n \in newlines : j <= n) - 1
    ELSE IF k >= Len(s) THEN k
    ELSE Len(s)

\* match.group(1) of the match whose keyword ends before position j
Group1(s, j) ==
    LET o == Opening(s, j)
        k == j + o[1] + o[2] + o[3]
    IN SubSeq(s, k, LineEnd(s, k))

\* re.search(pattern, text_lower, re.IGNORECASE): the leftmost position where
\* keyword\s*[:\-]?\s*(.+?)(?:\n|$) matches, 0 when it matches nowhere
Search(keyword, s) ==
    LET hits == {i \in 1..Len(s) :
                   KeywordAt(keyword, s, i) /\ Openings(s, i + Len(keyword)) # {}}
    IN IF hits = {} THEN 0 ELSE CHOOSE i \in hits : \A h \in hits : i <= h

RECURSIVE DropLeading(_)
\* re.sub(r'^[:\-\s]+', '', value)
DropLeading(v) ==
    IF v # << >> /\ (Head(v) \in {":", "-"} \/ IsSpace(Head(v))) THEN DropLeading(Tail(v))
    ELSE v

\* lines 242-243: the cleaned value of a match
Cleaned(group) == DropLeading(StrStrip(group))

\* (mutant) the value kept whole
Untruncated(v) == v

\* value[:500]
Truncated(v) == SubSeq(v, 1, IF Len(v) < MaxValueLength THEN Len(v) ELSE MaxValueLength)

RECURSIVE KeywordLoopNoBreak(_, _, _)
\* (mutant) the loop without its break: the last usable keyword decides
KeywordLoopNoBreak(keywords, i, text_lower) ==
    IF i > Len(keywords) THEN NoValue
    ELSE LET at == Search(keywords[i], text_lower)
             later == KeywordLoopNoBreak(keywords, i + 1, text_lower)
         IN IF later # NoValue THEN later
            ELSE IF at = 0 THEN NoValue
            ELSE LET value == Cleaned(Group1(text_lower, at + Len(keywords[i]))) IN
                 IF value # << >> /\ Len(value) > 1 THEN PyStr(Truncated(value)) ELSE NoValue

RECURSIVE KeywordLoop(_, _, _)
\* lines 238-246: the keywords of one field tried from the i-th on; the value
\* assigned to the field, NoValue when the loop ends without an assignment
KeywordLoop(keywords, i, text_lower) ==
    IF i > Len(keywords) THEN NoValue
    ELSE LET at == Search(keywords[i], text_lower) IN
         IF at = 0 THEN KeywordLoop(keywords, i + 1, text_lower)
         ELSE LET value == Cleaned(Group1(text_lower, at + Len(keywords[i]))) IN
              IF value # << >> /\ Len(value) > 1 THEN PyStr(Truncated(value))
              ELSE KeywordLoop(keywords, i + 1, text_lower)

\* self.FIELD_MAPPINGS.get(doc_type, {})
MappingsOf(doc_type) ==
    IF doc_type \in DOMAIN FIELD_MAPPINGS THEN FIELD_MAPPINGS[doc_type] ELSE << >>

\* lines 227-248: _extract_with_patterns; text_lower is computed once
ExtractWithPatterns(text, doc_type) ==
    LET mappings == MappingsOf(doc_type)
        Fields(text_lower) ==
            LET found == {i \in 1..Len(mappings) :
                            KeywordLoop(mappings[i].keywords, 1, text_lower) # NoValue}
            IN [f \in {mappings[i].field : i \in found} |->
                  KeywordLoop(mappings[CHOOSE i \in found : mappings[i].field = f].keywords,
                              1, text_lower)]
    IN Once(Fields, StrLower(text))

(***************************************************************************)
(* Lines 250-373: the AI extractor                                         *)
(***************************************************************************)
\* lines 256-264
all_fields ==
    <<"municipio", "departamento", "entidad", "bpin", "nombre_proyecto",
      "valor_total", "duracion", "responsable", "cargo", "alcalde",
      "objeto", "necesidad", "alcance", "modalidad", "fuente_financiacion",
      "sector", "codigo_ciiu", "codigos_unspsc", "programa", "subprograma",
      "plan_nacional", "plan_departamental", "plan_municipal",
      "poblacion_beneficiada", "indicador_producto", "meta_producto",
      "es_actualizacion">>

\* line 271: texts longer than this are sampled
SampleThreshold == 15000

\* lines 273, 275: the length of the beginning and of the middle window
WindowLength == 6000

\* lines 274, 276: half the middle window, and the length of the end
HalfWindow == 3000

\* text[i:j] with 0 <= i
Slice(s, i, j) == SubSeq(s, i + 1, IF j < Len(s) THEN j ELSE Len(s))

\* the section markers the sample is joined with
MiddleMarker == <<"\n", "\n", "[", ".", ".", ".", "S", "E", "C", "C", "I", "O'", "N", " ", "I", "N", "T", "E", "R", "M", "E", "D", "I", "A", ".", ".", ".", "]", "\n", "\n">>

FinalMarker == <<"\n", "\n", "[", ".", ".", ".", "S", "E", "C", "C", "I", "O'", "N", " ", "F", "I", "N", "A", "L", ".", ".", ".", "]", "\n", "\n">>

\* the first 6000 characters of a text, the 6000 from len//2 - 3000 on and
\* the last 3000, joined by the markers
SampleOf(t) ==
    SubSeq(t, 1, WindowLength)
    \o MiddleMarker
    \o SubSeq(t, Len(t) \div 2 - HalfWindow + 1, Len(t) \div 2 - HalfWindow + WindowLength)
    \o FinalMarker
    \o SubSeq(t, Len(t) - HalfWindow + 1, Len(t))

\* (mutant) the sample taken from 15000 characters on
TextToAnalyzeFromThreshold(text) ==
    IF Len(text) >= SampleThreshold THEN SampleOf(text) ELSE text

\* lines 270-279: text_to_analyze
TextToAnalyze(text) ==
    IF Len(text) > SampleThreshold
      THEN LET text_length == Len(text)
               middle_start == IF text_length \div 2 - HalfWindow > 0
                                 THEN text_length \div 2 - HalfWindow ELSE 0
           IN Slice(text, 0, WindowLength)
              \o <<"\n", "\n", "[", ".", ".", ".", "S", "E", "C", "C", "I", "O'", "N", " ", "I", "N", "T", "E", "R", "M", "E", "D", "I", "A", ".", ".", ".", "]", "\n", "\n">>
              \o Slice(text, middle_start, middle_start + WindowLength)
              \o <<"\n", "\n", "[", ".", ".", ".", "S", "E", "C", "C", "I", "O'", "N", " ", "F", "I", "N", "A", "L", ".", ".", ".", "]", "\n", "\n">>
              \o Slice(text, text_length - HalfWindow, text_length)
      ELSE text

\* lines 282-291: context_section; user_context is a str, "" when not given
ContextSection(user_context) ==
    IF user_context # << >>
      THEN <<"\n", "=", "=", "=", "=", "=", " ", "C", "O", "N", "T", "E", "X", "T", "O", " ", "D", "E", "L", " ", "U", "S", "U", "A", "R", "I", "O", " ", "=", "=", "=", "=", "=", "\n">> \o user_context
           \o <<"\n", "=", "=", "=", "=", "=", " ", "F", "I", "N", " ", "D", "E", "L", " ", "C", "O", "N", "T", "E", "X", "T", "O", " ", "=", "=", "=", "=", "=", "\n">>
      ELSE << >>

\* lines 294-318: human_message, its fixed parts (which hold no brace) cut to
\* their first line
HumanMessage(text_to_analyze, user_context) ==
    <<"E", "x", "t", "r", "a", "e", " ", "l", "o", "s", " ", "s", "i", "g", "u", "i", "e", "n", "t", "e", "s", " ", "c", "a", "m", "p", "o", "s">> \o ContextSection(user_context)
    \o <<"\n", "=", "=", "=", "=", "=", " ", "D", "O", "C", "U", "M", "E", "N", "T", "O", " ", "C", "O", "M", "P", "L", "E", "T", "O", " ", "=", "=", "=", "=", "=", "\n">> \o text_to_analyze
    \o <<"\n", "=", "=", "=", "=", "=", " ", "F", "I", "N", " ", "D", "E", "L", " ", "D", "O", "C", "U", "M", "E", "N", "T", "O", " ", "=", "=", "=", "=", "=", "\n">>

\* the smallest and the greatest member of a non-empty set of positions
First(S) == CHOOSE i \in S : \A j \in S : i <= j

Last(S) == CHOOSE i \in S : \A j \in S : i >= j

\* the position of the first of the characters cs in s from position i on,
\* 0 when there is none
Find(s, cs, i) ==
    LET at == {k \in i..Len(s) : s[k] \in cs} IN IF at = {} THEN 0 ELSE First(at)

RECURSIVE TemplateScan(_, _, _)
\* ChatPromptTemplate.from_messages reads human_message as a format string:
\* "{{" and "}}" are literal braces, "{name}" is an input variable, and a single
\* brace, or a brace opened inside a name, makes it raise ValueError.  The scan
\* from position i on, seen telling whether a variable was met.
TemplateScan(s, i, seen) ==
    LET b == Find(s, {"{", "}"}, i) IN
    IF b = 0 THEN (IF seen THEN "variables" ELSE "plain")
    ELSE IF b < Len(s) /\ s[b + 1] = s[b] THEN TemplateScan(s, b + 2, seen)
    ELSE IF s[b] = "}" \/ Find(s, {"{", "}"}, b + 1) = 0 THEN "ValueError"
    ELSE IF s[Find(s, {"{", "}"}, b + 1)] = "{" THEN "ValueError"
    ELSE TemplateScan(s, Find(s, {"{", "}"}, b + 1) + 1, TRUE)

\* lines 320-342: what building the prompt does
PromptOf(human_message) ==
    LET Scan(s) == TemplateScan(s, 1, FALSE) IN Once(Scan, human_message)

(***************************************************************************)
(* The response of the model is a sequence of pieces separated by white    *)
(* space: prose, an opening "```json", a bare "```", the text of a JSON    *)
(* value, or a brace standing alone.  An object may hold one string that   *)
(* spans several pieces: its text up to the opening quote is one piece,    *)
(* the closing quote and brace another, and the pieces between them are    *)
(* the words of the string, on one line.  Prose holds no quote, no fence   *)
(* and no brace.                                                           *)
(***************************************************************************)
Prose == [tok |-> "prose"]

FenceJson == [tok |-> "fence_json"]

Fence == [tok |-> "fence"]

OpenBrace == [tok |-> "open_brace"]

CloseBrace == [tok |-> "close_brace"]

Json(v) == [tok |-> "json", value |-> v]

\* {"objeto": " and "}
ObjectStart == [tok |-> "object_start"]

ObjectEnd == [tok |-> "object_end"]

PyInt(n) == [py |-> "int", val |-> n]

PyBool(b) == [py |-> "bool", val |-> b]

HasOpen(piece) ==
    piece.tok \in {"open_brace", "object_start"} \/ (piece.tok = "json" /\ piece.value.py = "dict")

HasClose(piece) ==
    piece.tok \in {"close_brace", "object_end"} \/ (piece.tok = "json" /\ piece.value.py = "dict")

IsFence(piece) == piece.tok \in {"fence", "fence_json"}

NoMatch == [matched |-> FALSE, str |-> << >>]

Matched(pieces) == [matched |-> TRUE, str |-> pieces]

\* r'\{[\s\S]*\}': from the first "{" to the last "}" after it; group(0)
BraceSpan(response) ==
    LET opens == {i \in 1..Len(response) : HasOpen(response[i])} IN
    IF opens = {} THEN NoMatch
    ELSE LET i == First(opens)
             closes == {j \in i..Len(response) :
                          HasClose(response[j]) /\ (j = i => response[i].tok = "json")}
         IN IF closes = {} THEN NoMatch ELSE Matched(SubSeq(response, i, Last(closes)))

\* r'```json\s*([\s\S]*?)\s*```': from the first "```json" to the next "```",
\* which an opening "```json" holds too; group(1)
FencedJson(response) ==
    LET opens == {i \in 1..Len(response) :
                    /\ response[i].tok = "fence_json"
                    /\ \E j \in (i + 1)..Len(response) : IsFence(response[j])} IN
    IF opens = {} THEN NoMatch
    ELSE LET i == First(opens)
             j == First({j \in (i + 1)..Len(response) : IsFence(response[j])})
         IN Matched(SubSeq(response, i + 1, j - 1))

\* r'```\s*([\s\S]*?)\s*```': from the first "```" to the next; after an
\* opening "```json" the group begins with the word json; group(1)
FencedAny(response) ==
    LET opens == {i \in 1..Len(response) :
                    /\ IsFence(response[i])
                    /\ \E j \in (i + 1)..Len(response) : IsFence(response[j])} IN
    IF opens = {} THEN NoMatch
    ELSE LET i == First(opens)
             j == First({j \in (i + 1)..Len(response) : IsFence(response[j])})
         IN Matched((IF response[i].tok = "fence_json" THEN <<Prose>> ELSE << >>)
                    \o SubSeq(response, i + 1, j - 1))

\* lines 352-356: json_patterns, in the order of the list
json_patterns == <<"brace", "fenced_json", "fenced">>

SearchPattern(pattern, response) ==
    CASE pattern = "brace" -> BraceSpan(response)
      [] pattern = "fenced_json" -> FencedJson(response)
      [] pattern = "fenced" -> FencedAny(response)

\* a piece whose text holds no quote: it may stand inside a JSON string
QuoteFree(piece) ==
    \/ piece.tok \in {"prose", "fence_json", "fence", "open_brace", "close_brace"}
    \/ piece.tok = "json" /\ piece.value.py = "list"
    \/ piece.tok = "json" /\ piece.value.py = "dict" /\ DOMAIN piece.value.items = {}

\* the text of a piece that holds no quote, the backquote written as an
\* apostrophe
PieceText(piece) ==
    CASE piece.tok = "fence_json" -> <<"'", "'", "'", "j", "s", "o", "n">>
      [] piece.tok = "fence" -> <<"'", "'", "'">>
      [] piece.tok = "open_brace" -> <<"{">>
      [] piece.tok = "close_brace" -> <<"}">>
      [] piece.tok = "prose" -> <<"t", "e", "x", "t", "o", " ", "l", "i", "b", "r", "e">>
      [] piece.tok = "json" /\ piece.value.py = "list" -> <<"[", "1", "]">>
      [] piece.tok = "json" /\ piece.value.py = "dict" -> <<"{", "}">>

RECURSIVE Words(_)
\* the string that holds the pieces, a blank before and after each
Words(pieces) ==
    IF pieces = << >> THEN <<" ">>
    ELSE <<" ">> \o PieceText(Head(pieces)) \o Words(Tail(pieces))

\* json.loads: the value when the string is the text of one JSON value (two
\* braces with white space between them are the empty object; an object
\* holding one string of pieces without a quote is that object),
\* JSONDecodeError otherwise
JsonLoads(str) ==
    IF Len(str) = 1 /\ str[1].tok = "json" THEN Returned(str[1].value)
    ELSE IF str = <<OpenBrace, CloseBrace>> THEN Returned(PyDict(<< >>))
    ELSE IF /\ Len(str) >= 2
            /\ str[1] = ObjectStart
            /\ str[Len(str)] = ObjectEnd
            /\ \A i \in 2..Len(str) - 1 : QuoteFree(str[i])
         THEN Returned(PyDict([objeto |-> PyStr(Words(SubSeq(str, 2, Len(str) - 1)))]))
    ELSE Raised("JSONDecodeError")

\* line 365: v and v != "null" and str(v).strip()
KeptValue(v) ==
    /\ Truthy(v)
    /\ ~(v.py = "str" /\ v.val = <<"n", "u", "l", "l">>)
    /\ v.py = "str" => StrStrip(v.val) # << >>

\* line 365: the dict comprehension
Filtered(items) == [k \in {x \in DOMAIN items : KeptValue(items[x])} |-> items[k]]

RECURSIVE ParseLoopIn(_, _, _)
\* lines 358-367: the loop over a list of patterns, from the i-th on.  A
\* parsed object is returned filtered; a parsed value that is no object has
\* no items(), which raises AttributeError out of the loop; NoValue when the
\* loop ends.
ParseLoopIn(patterns, response, i) ==
    IF i > Len(patterns) THEN NoValue
    ELSE LET match == SearchPattern(patterns[i], response) IN
         IF ~match.matched THEN ParseLoopIn(patterns, response, i + 1)
         ELSE LET result == JsonLoads(match.str) IN
              IF result.kind = "raised" THEN ParseLoopIn(patterns, response, i + 1)
              ELSE IF result.value.py = "dict" THEN Returned(Filtered(result.value.items))
              ELSE Raised("AttributeError")

\* lines 358-367: the loop over json_patterns
ParseLoop(response, i) == ParseLoopIn(json_patterns, response, i)

\* the model handle: it raises on the call, or answers with a response
LlmRaises == [py |-> "llm", raises |-> TRUE, response |-> << >>]

LlmAnswers(response) == [py |-> "llm", raises |-> FALSE, response |-> response]

\* (mutant) an object left without fields counts as no answer
TryModelNonEmpty(model, prompt) ==
    IF prompt = "variables" THEN NoValue
    ELSE IF model.raises THEN NoValue
    ELSE LET parsed == ParseLoop(model.response, 1) IN
         IF parsed = NoValue \/ parsed.kind = "raised" \/ parsed.value = << >> THEN NoValue
         ELSE parsed.value

\* lines 344-370: the try block; the dict returned from inside it, NoValue
\* when it is left without a return (the exception caught at line 369
\* included).  An input variable of the prompt makes invoke({}) raise
\* KeyError before the model is called.
TryModel(model, prompt) ==
    IF prompt = "variables" THEN NoValue
    ELSE IF model.raises THEN NoValue
    ELSE LET parsed == ParseLoop(model.response, 1) IN
         IF parsed = NoValue \/ parsed.kind = "raised" THEN NoValue ELSE parsed.value

\* the model collaborator is called
ModelCalled(text, user_context) ==
    PromptOf(HumanMessage(TextToAnalyze(text), user_context)) = "plain"

\* lines 250-373: _extract_with_ai
ExtractWithAI(model, text, doc_type, user_context) ==
    LET prompt == PromptOf(HumanMessage(TextToAnalyze(text), user_context)) IN
    IF prompt = "ValueError" THEN Raised("ValueError")
    ELSE LET fields == TryModel(model, prompt) IN
         IF fields # NoValue THEN Returned(fields)
         ELSE Returned(ExtractWithPatterns(text, doc_type))

(***************************************************************************)
(* Lines 95-140 and 376-397: extract_data_from_upload and extract_from_file *)
(***************************************************************************)
\* os.path.splitext(filename)[1] of a name without directories: from the
\* last dot on, "" when the name has none or only leading ones
Splitext1(filename) ==
    LET dots == {i \in 1..Len(filename) : filename[i] = "."} IN
    IF dots = {} THEN << >>
    ELSE LET d == Last(dots) IN
         IF \A i \in 1..d : filename[i] = "." THEN << >> ELSE SubSeq(filename, d, Len(filename))

\* (mutant) every other file type read as a pdf
KindOfElsePdf(file_type) ==
    LET t == StrLower(file_type) IN
    IF t \in {<<".", "d", "o", "c", "x">>, <<"d", "o", "c", "x">>} THEN "docx"
    ELSE IF t \in {<<".", "x", "l", "s", "x">>, <<".", "x", "l", "s">>} THEN "xlsx"
    ELSE "pdf"

\* lines 117-123: the branch file_type.lower() selects
KindOf(file_type) ==
    LET t == StrLower(file_type) IN
    IF t \in {<<".", "p", "d", "f">>, <<"p", "d", "f">>} THEN "pdf"
    ELSE IF t \in {<<".", "d", "o", "c", "x">>, <<"d", "o", "c", "x">>} THEN "docx"
    ELSE IF t \in {<<".", "x", "l", "s", "x">>, <<"x", "l", "s", "x">>, <<".", "x", "l", "s">>, <<"x", "l", "s">>} THEN "xlsx"
    ELSE "unsupported"

\* lines 117-122: the text extractor of the branch
ExtractText(kind, content, libs) ==
    CASE kind = "pdf" -> ExtractPdfText(content.pages, libs)
      [] kind = "docx" -> ExtractDocxText(content.body, libs)
      [] kind = "xlsx" -> ExtractXlsxText(content.sheets, libs)

\* line 124
Unsupported(file_type) ==
    [error |-> PyStr(<<"U", "n", "s", "u", "p", "p", "o", "r", "t", "e", "d", " ", "f", "i", "l", "e", " ", "t", "y", "p", "e", ":", " ">> \o file_type)]

\* (mutant) the raw text attached only where the extractor gave none
SetDefault(d, key, value) == IF key \in DOMAIN d THEN d ELSE (key :> value) @@ d

\* (mutant) the dict replaced by the one entry
SetItemAlone(d, key, value) == (key :> value)

\* d[key] = value
SetItem(d, key, value) == (key :> value) @@ d

\* lines 376-394: extract_data_from_upload up to its call of extract_from_file
ExUpload ==
    /\ ex_pc = "upload"
    /\ IF ex_args.uploaded_file = PyNone
         THEN /\ ex_ret' = Returned(<< >>)
              /\ ex_pc' = "done"
              /\ ex_args' = ex_args
         ELSE /\ ex_args' = [file_type |-> StrLower(Splitext1(ex_args.uploaded_file.name))]
                            @@ ex_args
              /\ ex_pc' = "extract_text"
              /\ ex_ret' = ex_ret
    /\ UNCHANGED <<ex_text, ex_result, ex_invoked, ex_prompt>>
    /\ UNCHANGED <<pc, data, llm, generators, executor, future, calls, taskData, waiting,
                   results, files_to_zip, zip_on_disk, ret, it_doc_type, it_result,
                   it_recorded, session>>

\* lines 108-124: the content read, and the text extracted by the branch of
\* the file type, or the error result returned
ExExtractText ==
    /\ ex_pc = "extract_text"
    /\ LET kind == KindOf(ex_args.file_type) IN
       IF kind = "unsupported"
         THEN /\ ex_ret' = Returned(Unsupported(ex_args.file_type))
              /\ ex_pc' = "done"
              /\ UNCHANGED <<ex_text, ex_invoked>>
         ELSE LET got == ExtractText(kind, ex_args.uploaded_file.content, ex_args.libs) IN
              /\ ex_invoked' = ex_invoked \cup {"text"}
              /\ IF got.kind = "raised"
                   THEN ex_ret' = got /\ ex_pc' = "done" /\ ex_text' = ex_text
                   ELSE ex_ret' = ex_ret /\ ex_pc' = "extract_fields" /\ ex_text' = PyStr(got.value)
    /\ UNCHANGED <<ex_args, ex_result, ex_prompt>>
    /\ UNCHANGED <<pc, data, llm, generators, executor, future, calls, taskData, waiting,
                   results, files_to_zip, zip_on_disk, ret, it_doc_type, it_result,
                   it_recorded, session>>

\* lines 127-131: the fields, by the model when the extractor has one, by the
\* patterns otherwise
ExExtractFields ==
    /\ ex_pc = "extract_fields"
    /\ IF Truthy(ex_args.llm)
         THEN LET got == ExtractWithAI(ex_args.llm, ex_text.val, ex_args.doc_type,
                                       ex_args.user_context)
                  called == ModelCalled(ex_text.val, ex_args.user_context)
                  fellback == got.kind = "returned"
                              /\ TryModel(ex_args.llm,
                                          PromptOf(HumanMessage(TextToAnalyze(ex_text.val),
                                                                ex_args.user_context)))
                                 = NoValue
              IN /\ ex_invoked' = ex_invoked
                                  \cup (IF called THEN {"model"} ELSE {})
                                  \cup (IF fellback THEN {"patterns"} ELSE {})
                 /\ ex_prompt' = PyStr(TextToAnalyze(ex_text.val))
                 /\ IF got.kind = "raised"
                      THEN ex_ret' = got /\ ex_pc' = "done" /\ ex_result' = ex_result
                      ELSE ex_ret' = ex_ret /\ ex_pc' = "attach" /\ ex_result' = got.value
         ELSE /\ ex_result' = ExtractWithPatterns(ex_text.val, ex_args.doc_type)
              /\ ex_prompt' = ex_prompt
              /\ ex_invoked' = ex_invoked \cup {"patterns"}
              /\ ex_pc' = "attach"
              /\ ex_ret' = ex_ret
    /\ UNCHANGED <<ex_args, ex_text>>
    /\ UNCHANGED <<pc, data, llm, generators, executor, future, calls, taskData, waiting,
                   results, files_to_zip, zip_on_disk, ret, it_doc_type, it_result,
                   it_recorded, session>>

\* lines 133-140: the raw text and the user's context attached, the result
\* returned
ExAttach ==
    /\ ex_pc = "attach"
    /\ LET dumped == SetItem(ex_result, "context_dump", ex_text) IN
       ex_ret' = Returned(IF ex_args.user_context # << >>
                            THEN SetItem(dumped, "user_context", PyStr(ex_args.user_context))
                            ELSE dumped)
    /\ ex_pc' = "done"
    /\ UNCHANGED <<ex_args, ex_text, ex_result, ex_invoked, ex_prompt>>
    /\ UNCHANGED <<pc, data, llm, generators, executor, future, calls, taskData, waiting,
                   results, files_to_zip, zip_on_disk, ret, it_doc_type, it_result,
                   it_recorded, session>>

ExtractNext == ExUpload \/ ExExtractText \/ ExExtractFields \/ ExAttach

(***************************************************************************)
(* The uploads the extraction is run on                                    *)
(***************************************************************************)
\* How many pages, paragraphs and table rows, or sheets a file holds at most.
MaxPages == 2

\* the sequences of at most n members of S
SeqsUpTo(S, n) == UNION {[1..k -> S] : k \in 0..n}

\* the texts of the pages
PageTexts ==
    { <<"E", "n", "t", "i", "d", "a", "d", ":", " ", "x">>, <<"e", "n", "t", "i", "d", "a", "d", " ", "c", "o", "n", "t", "r", "a", "t", "a", "n", "t", "e", " ", "-", " ", "A", "B", " ", "c", "d">>, <<"M", "u", "n", "i", "c", "i", "p", "i", "o", ":">>, <<"C", "i", "u", "d", "a", "d", ":", " ", "C", "a", "l", "i">>,
      <<"V", "a", "l", "o", "r", " ", "-">>, <<"{">>, << >> }

\* a page of n characters, no two of its windows alike
PageOfLength(n) ==
    <<"C", "i", "u", "d", "a", "d", ":", " ", "C", "a", "l", "i", "\n">>
    \o [i \in 1..n - 13 |->
          <<"0", "1", "2", "3", "4", "5", "6", "7", "8", "9">>[((i * i) % 10) + 1]]

\* a page longer than the texts handed whole to the model
LongPage == PageOfLength(SampleThreshold + 13)

\* pages as long as the longest text handed whole to the model, one
\* character longer, and a third longer
BoundaryPages ==
    {PageOfLength(SampleThreshold), PageOfLength(SampleThreshold + 1),
     PageOfLength(SampleThreshold + SampleThreshold \div 3)}

\* a page whose one line gives a capture of more than 500 characters
WidePage ==
    <<"C", "i", "u", "d", "a", "d", ":", " ">> \o [i \in 1..MaxValueLength + 1 |-> "b"]

\* the pages of the files read with failing libraries
PlainPages == { <<"C", "i", "u", "d", "a", "d", ":", " ", "C", "a", "l", "i">>, <<"M", "u", "n", "i", "c", "i", "p", "i", "o", ":">>, << >> }

Paragraph(text) == [what |-> "paragraph", text |-> text]

Row(cells) == [what |-> "row", cells |-> cells]

DocxItems ==
    { Paragraph(<<"C", "i", "u", "d", "a", "d", ":", " ", "C", "a", "l", "i">>), Paragraph(<<" ", " ">>), Row(<<<<"V", "a", "l", "o", "r">>, <<" ", "1", "2", " ">>, << >> >>) }

Sheets ==
    { [name |-> "Hoja1",
       rows |-> << <<PyStr(<<"m", "u", "n", "i", "c", "i", "p", "i", "o">>), PyStr(<<"v", "a", "l", "o", "r">>)>>,
                   <<PyStr(<<"c", "a", "l", "i">>), PyNone>> >>],
      [name |-> "Hoja2", rows |-> << <<PyStr(<<"p", "l", "a", "z", "o">>)>> >>] }

Upload(name, content) == [name |-> name, content |-> content]

Pdf(pages) == Upload(<<"a", ".", "p", "d", "f">>, [pages |-> pages])

PdfUploads(texts) == {Pdf(c) : c \in SeqsUpTo(texts, MaxPages)}

DocxUploads ==
    {Upload(<<"a", ".", "d", "o", "c", "x">>, [body |-> c]) : c \in SeqsUpTo(DocxItems, MaxPages)}

XlsxUploads ==
    {Upload(n, [sheets |-> c]) : n \in {<<"a", ".", "x", "l", "s", "x">>, <<"b", ".", "X", "L", "S">>}, c \in SeqsUpTo(Sheets, MaxPages)}

\* names whose extension is none of the supported ones
OtherUploads ==
    {Upload(n, [pages |-> <<<<"C", "i", "u", "d", "a", "d", ":", " ", "C", "a", "l", "i">>>>]) : n \in {<<"a", ".", "t", "x", "t">>, <<"a", ".", "d", "o", "c">>, <<"p", "d", "f">>, <<".", "p", "d", "f">>}}

\* what a library may do with a file of at most MaxPages items
Behaviours == {Absent, Sound} \cup {FailsAt(k) : k \in 0..MaxPages}

SoundLibs ==
    [fitz |-> Sound, pdfplumber |-> Sound, docx |-> Sound, pandas |-> Sound,
     openpyxl |-> Sound]

\* the JSON objects the model answers with
Objects ==
    { [municipio |-> PyStr(<<"C", "a", "l", "i">>)],
      [municipio |-> PyNone, entidad |-> PyStr(<<"n", "u", "l", "l">>), objeto |-> PyStr(<<" ", " ">>),
       valor_total |-> PyInt(0), es_actualizacion |-> PyBool(FALSE),
       departamento |-> PyStr(<<"V", "a", "l", "l", "e">>)],
      [bpin |-> PyInt(5), foo |-> PyStr(<<"x">>), context_dump |-> PyStr(<<"c">>),
       user_context |-> PyStr(<<"u">>)],
      [municipio |-> PyNone] }

Responses ==
    {<<Json(PyDict(o))>> : o \in Objects}
    \cup {<<Prose, FenceJson, Json(PyDict(o)), Fence>> : o \in Objects}
    \cup { <<Prose>>,
           <<FenceJson, Json(PyList), Fence>>,
           <<OpenBrace, Prose, CloseBrace, FenceJson, Json(PyDict([municipio |-> PyStr(<<"C", "a", "l", "i">>)])),
             Fence>>,
           <<Fence, Json(PyDict([municipio |-> PyStr(<<"C", "a", "l", "i">>)])), Fence>>,
           <<OpenBrace, Prose>>,
           <<Json(PyDict([municipio |-> PyStr(<<"C", "a", "l", "i">>)])), FenceJson,
             Json(PyList), Fence>>,
           <<ObjectStart, FenceJson, OpenBrace, CloseBrace, Fence, ObjectEnd>>,
           <<Json(PyDict([municipio |-> PyStr(<<"C", "a", "l", "i">>)])), Prose,
             Json(PyDict([entidad |-> PyStr(<<"A", "B">>)]))>> }

Llms == {LlmRaises} \cup {LlmAnswers(r) : r \in Responses}

UserContexts == { << >>, <<"e", "s", " ", "{", "a", "}">>, <<"A", "c", "t">> }

Args(uploaded_file, doc_type, model, user_context, libs) ==
    [uploaded_file |-> uploaded_file, doc_type |-> doc_type, llm |-> model,
     user_context |-> user_context, libs |-> libs]

\* extraction by the patterns alone, on every document type and on one the
\* table does not hold
PatternInputs ==
    {Args(f, t, PyNone, << >>, SoundLibs) : f \in PdfUploads(PageTexts), t \in DocTypes \cup {"otro"}}

\* extraction by the patterns of a line longer than a value may be
WideInputs ==
    {Args(Pdf(<<WidePage>>), t, PyNone, << >>, SoundLibs) : t \in {"dts", "otro"}}

\* extraction with a model
ModelInputs ==
    {Args(f, "dts", m, c, SoundLibs) :
       f \in {Pdf(<<p>>) : p \in PageTexts} \cup DocxUploads \cup XlsxUploads,
       m \in Llms, c \in UserContexts}

\* a document longer than the texts handed whole to the model, read by a
\* model that answers with an object
LongInputs ==
    {Args(Pdf(<<LongPage>>), "dts", LlmAnswers(<<Json(PyDict(o))>>), << >>, SoundLibs) :
       o \in Objects}
    \cup {Args(Pdf(<<p>>), "dts",
                LlmAnswers(<<Json(PyDict([municipio |-> PyStr(<<"C", "a", "l", "i">>)]))>>),
                << >>, SoundLibs) : p \in BoundaryPages}

\* the text extractors with libraries absent or raising
LibraryInputs ==
    {Args(f, "dts", PyNone, << >>, [SoundLibs EXCEPT !.fitz = b1, !.pdfplumber = b2]) :
       f \in PdfUploads(PlainPages), b1 \in Behaviours, b2 \in Behaviours}
    \cup {Args(f, "dts", PyNone, << >>, [SoundLibs EXCEPT !.docx = b1]) :
            f \in DocxUploads, b1 \in Behaviours}
    \cup {Args(f, "dts", PyNone, << >>, [SoundLibs EXCEPT !.pandas = b1, !.openpyxl = b2]) :
            f \in XlsxUploads, b1 \in Behaviours, b2 \in Behaviours}

\* files of other kinds, and no file
OtherInputs ==
    {Args(f, "dts", m, c, SoundLibs) :
       f \in OtherUploads \cup {PyNone}, m \in {PyNone, LlmRaises}, c \in UserContexts}

ExtractInputs ==
    PatternInputs \cup WideInputs \cup ModelInputs \cup LongInputs \cup LibraryInputs \cup OtherInputs

ExtractInit ==
    /\ data = [entidad |-> Chars(<<"A">>)]
    /\ Unstarted
    /\ ex_pc = "upload"
    /\ ex_args \in ExtractInputs
    /\ ex_text = NoValue
    /\ ex_result = NoValue
    /\ ex_invoked = {}
    /\ ex_ret = [kind |-> "running"]
    /\ ex_prompt = NoValue
    /\ SessionIdle

ExtractSpec == ExtractInit /\ [][ExtractNext]_vars

\* the text extractor of the file's kind has been run
TextExtracted == "text" \in ex_invoked

\* the library is absent, or raises somewhere on a file of n items
OutOfOrder(b, n) == ~b.present \/ b.fails \in 0..n

\* every library that reads the kind of the upload is absent or raises on it
NoLibraryReads ==
    LET f == ex_args.uploaded_file.content
        kind == KindOf(ex_args.file_type)
    IN CASE kind = "pdf" -> /\ OutOfOrder(ex_args.libs.fitz, Len(f.pages))
                            /\ OutOfOrder(ex_args.libs.pdfplumber, Len(f.pages))
         [] kind = "docx" -> OutOfOrder(ex_args.libs.docx, Len(f.body))
         [] kind = "xlsx" -> /\ OutOfOrder(ex_args.libs.pandas, Len(f.sheets))
                             /\ OutOfOrder(ex_args.libs.openpyxl, Len(f.sheets))

(***************************************************************************)
(* C13: for a pdf, docx or xlsx/xls file the text extractor never raises:  *)
(* whichever libraries are absent and wherever one raises, it returns a    *)
(* string, and it returns "" when every library for the kind is absent or  *)
(* raises on the file.                                                     *)
(***************************************************************************)
C13_TextNeverRaises ==
    TextExtracted =>
      /\ ex_text # NoValue
      /\ ex_text.py = "str"
      /\ ex_text.val \in Seq(STRING)
      /\ NoLibraryReads => ex_text = PyStr(<< >>)

C13_Witness ==
    /\ TextExtracted
    /\ ex_text = PyStr(<< >>)
    /\ KindOf(ex_args.file_type) = "pdf"
    /\ ex_args.uploaded_file.content.pages # << >>
    /\ ex_args.libs.fitz = FailsAt(0)
    /\ ex_args.libs.pdfplumber = Absent

\* sub stands somewhere in s
Occurs(sub, s) == \E i \in 1..(Len(s) - Len(sub) + 1) : SubSeq(s, i, i + Len(sub) - 1) = sub

\* page i can be read: a library is present, opens the file, and does not
\* raise on that page
Readable(i) ==
    \E b \in {ex_args.libs.fitz, ex_args.libs.pdfplumber} :
      b.present /\ b.fails # 0 /\ b.fails # i

(***************************************************************************)
(* C14: a page that cannot be read does not abort the extraction of the    *)
(* others: the text of every page of a pdf that can be read is part of the *)
(* text returned.                                                          *)
(***************************************************************************)
C14_PartialText ==
    (TextExtracted /\ KindOf(ex_args.file_type) = "pdf") =>
      \A i \in 1..Len(ex_args.uploaded_file.content.pages) :
        Readable(i) => Occurs(ex_args.uploaded_file.content.pages[i], ex_text.val)

\* the fields have been asked of an extractor that has a model
ModelAsked == TextExtracted /\ ex_pc \in {"attach", "done"} /\ Truthy(ex_args.llm)

\* the model raises when called, or no pattern recovers a JSON object from
\* its response
NoObjectFromModel ==
    \/ ex_args.llm.raises
    \/ ParseLoop(ex_args.llm.response, 1) = NoValue
    \/ ParseLoop(ex_args.llm.response, 1).kind = "raised"

(***************************************************************************)
(* C15: with a model that raises when called, or whose response holds no   *)
(* JSON object the patterns recover, the AI extractor raises nothing and   *)
(* returns exactly what the pattern extractor returns on the same full     *)
(* text and document type.                                                 *)
(***************************************************************************)
C15_FallbackEquivalence ==
    (ModelAsked /\ NoObjectFromModel) =>
      /\ ex_ret.kind # "raised"
      /\ ex_result = ExtractWithPatterns(ex_text.val, ex_args.doc_type)

\* the extensions extract_from_file reads
SupportedExtensions == {<<".", "p", "d", "f">>, <<".", "d", "o", "c", "x">>, <<".", "x", "l", "s", "x">>, <<".", "x", "l", "s">>}

\* a file was uploaded and the extension of its name is none of them
UnsupportedUpload ==
    /\ ex_args.uploaded_file # PyNone
    /\ StrLower(Splitext1(ex_args.uploaded_file.name)) \notin SupportedExtensions

(***************************************************************************)
(* C16: for a file whose extension is none of pdf, docx, xlsx, xls the     *)
(* extraction returns a FieldMap with an error entry and nothing else, and *)
(* nothing else is done: no text extractor, no pattern extraction and no   *)
(* model is called, and nothing is raised.                                 *)
(***************************************************************************)
C16_UnsupportedOnlyError ==
    UnsupportedUpload =>
      /\ ex_invoked = {}
      /\ ex_text = NoValue /\ ex_result = NoValue
      /\ ex_ret.kind # "raised"
      /\ ex_pc \in {"upload", "extract_text", "done"}
      /\ ex_pc = "done" =>
           /\ ex_ret.kind = "returned"
           /\ DOMAIN ex_ret.value = {"error"}
           /\ ex_ret.value["error"].py = "str"

C16_Witness ==
    /\ UnsupportedUpload
    /\ ex_pc = "done"
    /\ ex_ret.kind = "returned"
    /\ ex_args.uploaded_file.name = <<".", "p", "d", "f">>
    /\ Truthy(ex_args.llm)
    /\ ex_args.user_context # << >>

\* a file of a supported kind was uploaded and the extraction has ended
SupportedDone ==
    /\ ex_pc = "done"
    /\ ex_args.uploaded_file # PyNone
    /\ StrLower(Splitext1(ex_args.uploaded_file.name)) \in SupportedExtensions

\* the prompt could not be built and ValueError reached the caller (C15)
RaisedInPrompt ==
    /\ ex_ret.kind = "raised"
    /\ ModelAsked
    /\ PromptOf(HumanMessage(TextToAnalyze(ex_text.val), ex_args.user_context)) = "ValueError"

(***************************************************************************)
(* C17: the FieldMap returned for a file of a supported kind has a         *)
(* context_dump entry which is the whole text the text extractor returned, *)
(* whether the fields come from the model, from the patterns after the     *)
(* model failed, or from the patterns alone, whether or not a field was    *)
(* found, and whatever context_dump the model's JSON holds.  The only      *)
(* extraction that returns no FieldMap is the one whose prompt cannot be   *)
(* built.                                                                  *)
(***************************************************************************)
C17_ContextDumpIsFullText ==
    SupportedDone =>
      \/ /\ ex_ret.kind = "returned"
         /\ "context_dump" \in DOMAIN ex_ret.value
         /\ ex_ret.value["context_dump"] = ex_text
         /\ ex_text = PyStr(ExtractText(KindOf(ex_args.file_type),
                                        ex_args.uploaded_file.content, ex_args.libs).value)
      \/ RaisedInPrompt

C17_Witness ==
    /\ SupportedDone
    /\ ex_ret.kind = "returned"
    /\ "model" \in ex_invoked
    /\ "context_dump" \in DOMAIN ex_result
    /\ ex_result["context_dump"] # ex_text
    /\ ex_text.val # << >>

\* the entries extract_from_file adds to the fields on its own
Reserved == {"context_dump", "user_context"}

\* the fields among the entries of a dict
FieldsOf(d) == DOMAIN d \ Reserved

(***************************************************************************)
(* C18: when the caller gives a non-empty user_context, the FieldMap       *)
(* returned for a file of a supported kind holds it, character for         *)
(* character, under the user_context key, and holds exactly the fields the *)
(* extractor produced, each with the value the extractor gave it.  The     *)
(* only extraction that returns no FieldMap is the one whose prompt cannot *)
(* be built.                                                               *)
(***************************************************************************)
C18_UserContextVerbatim ==
    (SupportedDone /\ ex_args.user_context # << >>) =>
      \/ /\ ex_ret.kind = "returned"
         /\ "user_context" \in DOMAIN ex_ret.value
         /\ ex_ret.value["user_context"] = PyStr(ex_args.user_context)
         /\ FieldsOf(ex_ret.value) = FieldsOf(ex_result)
         /\ \A k \in FieldsOf(ex_result) : ex_ret.value[k] = ex_result[k]
      \/ RaisedInPrompt

C18_Witness ==
    /\ SupportedDone
    /\ ex_args.user_context # << >>
    /\ ex_ret.kind = "returned"
    /\ FieldsOf(ex_result) # {}
    /\ ex_ret.value["user_context"] = PyStr(ex_args.user_context)

\* the field names the extractor knows: those of every keyword table and
\* those the model is asked for
Vocabulary ==
    {all_fields[i] : i \in DOMAIN all_fields}
    \cup UNION {{FIELD_MAPPINGS[t][i].field : i \in DOMAIN FIELD_MAPPINGS[t]} :
                  t \in DOMAIN FIELD_MAPPINGS}

(***************************************************************************)
(* C19: every entry of the FieldMap returned for a file of a supported     *)
(* kind, the context_dump and user_context entries aside, has a key of the *)
(* vocabulary and a string value, whether the fields come from the         *)
(* patterns or from the JSON object of the model.                          *)
(***************************************************************************)
C19_VocabularyStrings ==
    (SupportedDone /\ ex_ret.kind = "returned") =>
      \A k \in FieldsOf(ex_ret.value) :
        /\ k \in Vocabulary
        /\ ex_ret.value[k].py = "str"

\* the fields came from the pattern extractor
PatternsRan == ex_pc \in {"attach", "done"} /\ "patterns" \in ex_invoked

\* the keywords, by position, that match somewhere in the lowered text
Matching(keywords, s) == {j \in DOMAIN keywords : Search(keywords[j], s) # 0}

\* the cleaned capture of the leftmost match of the j-th keyword
CaptureOf(keywords, j, s) ==
    Cleaned(Group1(s, Search(keywords[j], s) + Len(keywords[j])))

\* the matching keywords whose cleaned capture has two characters or more
Usable(keywords, s) == {j \in Matching(keywords, s) : Len(CaptureOf(keywords, j, s)) > 1}

(***************************************************************************)
(* C20 as stated: a field the pattern extractor returns has the value      *)
(* captured by the first keyword, in declaration order, that matches the   *)
(* text; later keywords play no part.                                      *)
(***************************************************************************)
C20_FirstMatchDecides ==
    PatternsRan =>
      LET mappings == MappingsOf(ex_args.doc_type)
          s == StrLower(ex_text.val)
      IN \A i \in DOMAIN mappings :
           mappings[i].field \in DOMAIN ex_result =>
             /\ Matching(mappings[i].keywords, s) # {}
             /\ ex_result[mappings[i].field] =
                  PyStr(Truncated(CaptureOf(mappings[i].keywords,
                                            First(Matching(mappings[i].keywords, s)), s)))

(***************************************************************************)
(* C20 amended: the keywords of a field are tried in declaration order and *)
(* the first one whose match yields a cleaned capture of two characters or *)
(* more decides the field, with that capture cut to 500 characters; a      *)
(* keyword that matches with a shorter capture is passed over and the next *)
(* one is tried; the field is absent exactly when no keyword yields such a *)
(* capture.                                                                *)
(***************************************************************************)
C20_FirstUsableDecides ==
    PatternsRan =>
      LET mappings == MappingsOf(ex_args.doc_type)
          s == StrLower(ex_text.val)
      IN /\ DOMAIN ex_result \subseteq {mappings[i].field : i \in DOMAIN mappings}
         /\ \A i \in DOMAIN mappings :
              IF Usable(mappings[i].keywords, s) = {}
                THEN mappings[i].field \notin DOMAIN ex_result
                ELSE /\ mappings[i].field \in DOMAIN ex_result
                     /\ ex_result[mappings[i].field] =
                          PyStr(Truncated(CaptureOf(mappings[i].keywords,
                                                    First(Usable(mappings[i].keywords, s)), s)))

C20_Witness ==
    /\ PatternsRan
    /\ ex_pc = "done"
    /\ LET mappings == MappingsOf(ex_args.doc_type)
           s == StrLower(ex_text.val)
       IN \E i \in DOMAIN mappings :
            /\ Usable(mappings[i].keywords, s) # {}
            /\ First(Matching(mappings[i].keywords, s)) < First(Usable(mappings[i].keywords, s))
            /\ mappings[i].field \in DOMAIN ex_result

(***************************************************************************)
(* C21: every value the pattern extractor returns is a trimmed capture     *)
(* freed of its leading separators that has two characters or more, cut to *)
(* 500 characters: it has between 2 and 500 characters and begins with a   *)
(* character that is neither blank nor a separator; for a doc_type the     *)
(* table does not hold, the FieldMap is empty.                             *)
(***************************************************************************)
C21_ValueLengths ==
    PatternsRan =>
      /\ \A k \in DOMAIN ex_result :
           /\ ex_result[k].py = "str"
           /\ Len(ex_result[k].val) >= 2
           /\ Len(ex_result[k].val) <= MaxValueLength
           /\ ~IsSpace(ex_result[k].val[1])
           /\ ex_result[k].val[1] \notin {":", "-"}
      /\ ex_args.doc_type \notin DOMAIN FIELD_MAPPINGS => DOMAIN ex_result = {}

C21_Witness ==
    /\ PatternsRan
    /\ ex_pc = "done"
    /\ \E k \in DOMAIN ex_result : Len(ex_result[k].val) = MaxValueLength
    /\ Len(ex_text.val) > MaxValueLength

(***************************************************************************)
(* src/app.py lines 373-494: render_data_upload_option, the two buttons of *)
(* a form and the session cache they write                                 *)
(***************************************************************************)
\* (mutant) the result dict of the pattern extractor shared between calls
LeftoverResult(previous_calls) ==
    [k \in UNION {DOMAIN previous_calls[i].fields : i \in DOMAIN previous_calls} |->
       previous_calls[CHOOSE i \in DOMAIN previous_calls :
                        k \in DOMAIN previous_calls[i].fields].fields[k]]

\* extractor line 229, result = {}: the dict a call of the pattern extractor
\* starts from, whatever the calls before it returned
FreshResult(previous_calls) == << >>

\* extractor lines 376-397 and 95-140 run from beginning to end: what
\* extract_data_from_upload returns or raises, and the call it made of the
\* pattern extractor, if any
ExtractDataFromUpload(uploaded_file, doc_type, model, user_context, libs, previous_calls) ==
    LET file_type == StrLower(Splitext1(uploaded_file.name))
        kind == KindOf(file_type)
        got == ExtractText(kind, uploaded_file.content, libs)
        text == got.value
        fields == IF Truthy(model)
                    THEN ExtractWithAI(model, text, doc_type, user_context)
                    ELSE Returned(ExtractWithPatterns(text, doc_type)
                                  @@ FreshResult(previous_calls))
        fellback == /\ Truthy(model)
                    /\ TryModel(model, PromptOf(HumanMessage(TextToAnalyze(text),
                                                             user_context))) = NoValue
        dumped == SetItem(fields.value, "context_dump", PyStr(text))
    IN IF uploaded_file = PyNone THEN [ret |-> Returned(<< >>), patterns |-> << >>]
       ELSE IF kind = "unsupported"
         THEN [ret |-> Returned(Unsupported(file_type)), patterns |-> << >>]
       ELSE IF got.kind = "raised" THEN [ret |-> got, patterns |-> << >>]
       ELSE IF fields.kind = "raised" THEN [ret |-> fields, patterns |-> << >>]
       ELSE [ret |-> Returned(IF user_context # << >>
                                THEN SetItem(dumped, "user_context", PyStr(user_context))
                                ELSE dumped),
             patterns |-> IF ~Truthy(model) \/ fellback
                            THEN <<[text |-> text, doc_type |-> doc_type,
                                    fields |-> fields.value]>>
                            ELSE << >>]

\* app lines 814, 935, 1028, 1114, 1175 and 1257: the key_prefix of each form
\* and the document type it extracts for
Forms ==
    [ep |-> "estudios_previos", as |-> "analisis_sector", dts |-> "dts",
     cert |-> "certificaciones", mga |-> "mga_subsidios", unified |-> "mga_subsidios"]

\* d.get(key, default)
Get(d, key, default) == IF key \in DOMAIN d THEN d[key] ELSE default

\* bool(d) of a dict
NonEmpty(d) == DOMAIN d # {}

\* (mutant) the cached entry replaced by the corrections
Replaced(cached, parsed) == parsed

\* app line 487: {**cached, **parsed}
Merged(cached, parsed) == parsed @@ cached

\* how many clicks of a session are followed
MaxClicks == 3

\* app lines 402-426: the button "Extraer Datos con IA" of a form, clicked with
\* a file in its uploader; model is None when get_llm raised (lines 407-411)
ClickExtract(key_prefix, data_file, model, user_context) ==
    /\ se_steps < MaxClicks
    /\ se_steps' = se_steps + 1
    /\ \E run \in {ExtractDataFromUpload(data_file, Forms[key_prefix], model,
                                          user_context, SoundLibs, pattern_calls)} :
       LET doc_type == Forms[key_prefix]
           extracted == run.ret.value
       IN /\ pattern_calls' = pattern_calls \o run.patterns
          /\ IF run.ret.kind = "raised"
               THEN /\ se_last' = [handler |-> "extract", key_prefix |-> key_prefix,
                                   outcome |-> "error"]
                    /\ UNCHANGED <<extracted_data, raw_json>>
               ELSE IF NonEmpty(extracted) /\ ~Truthy(Get(extracted, "error", PyNone))
                 THEN /\ extracted_data' = SetItem(extracted_data, doc_type, extracted)
                      /\ raw_json' = SetItem(raw_json, key_prefix, extracted)
                      /\ se_last' = [handler |-> "extract", key_prefix |-> key_prefix,
                                     outcome |-> "stored"]
                 ELSE /\ se_last' = [handler |-> "extract", key_prefix |-> key_prefix,
                                     outcome |-> "warning"]
                      /\ UNCHANGED <<extracted_data, raw_json>>
    /\ UNCHANGED <<pc, data, llm, generators, executor, future, calls, taskData, waiting,
                   results, files_to_zip, zip_on_disk, ret, it_doc_type, it_result,
                   it_recorded, extraction>>

\* app lines 429-430 and 482-491: the button "Aplicar JSON Editado", shown once
\* the form has extracted data, clicked with edited_json in the text area.
\* Only JSONDecodeError is caught; the TypeError of {**cached, **parsed} for a
\* JSON value that is no object leaves the handler.
ClickApply(key_prefix, edited_json) ==
    /\ se_steps < MaxClicks
    /\ key_prefix \in DOMAIN raw_json
    /\ NonEmpty(raw_json[key_prefix])
    /\ se_steps' = se_steps + 1
    /\ LET doc_type == Forms[key_prefix]
           parsed == JsonLoads(edited_json)
       IN IF parsed.kind = "raised"
            THEN /\ se_last' = [handler |-> "apply", key_prefix |-> key_prefix,
                                outcome |-> "invalid"]
                 /\ UNCHANGED extracted_data
            ELSE IF parsed.value.py # "dict"
              THEN /\ se_last' = [handler |-> "apply", key_prefix |-> key_prefix,
                                  outcome |-> "TypeError"]
                   /\ UNCHANGED extracted_data
              ELSE /\ extracted_data' =
                        SetItem(extracted_data, doc_type,
                                Merged(Get(extracted_data, doc_type, << >>),
                                       parsed.value.items))
                   /\ se_last' = [handler |-> "apply", key_prefix |-> key_prefix,
                                  outcome |-> "merged", parsed |-> parsed.value.items]
    /\ UNCHANGED <<raw_json, pattern_calls>>
    /\ UNCHANGED <<pc, data, llm, generators, executor, future, calls, taskData, waiting,
                   results, files_to_zip, zip_on_disk, ret, it_doc_type, it_result,
                   it_recorded, extraction>>

\* the forms clicked in the sessions followed, two of them of one document type
OpenForms == {"dts", "mga", "unified"}

\* the files put in the uploaders: two texts the patterns read differently,
\* and one whose brace keeps the prompt from being built
SessionFiles ==
    {Pdf(<<p>>) : p \in {<<"e", "n", "t", "i", "d", "a", "d", " ", "c", "o", "n", "t", "r", "a", "t", "a", "n", "t", "e", " ", "-", " ", "A", "B", " ", "c", "d">>, <<"C", "i", "u", "d", "a", "d", ":", " ", "C", "a", "l", "i">>, <<"{">>}}

SessionModels == {PyNone, LlmRaises, LlmAnswers(<<Json(PyDict([municipio |-> PyStr(<<"C", "a", "l", "i">>)]))>>)}

\* the contents of the text area when "Aplicar" is clicked: two objects, a
\* list, and a text that is no JSON
Edits ==
    { <<Json(PyDict([municipio |-> PyStr(<<"T", "u", "l", "u", "a">>)]))>>,
      <<Json(PyDict([entidad |-> PyStr(<<"A", "l", "c", "a", "l", "d", "i", "a">>), context_dump |-> PyStr(<<"z">>)]))>>,
      <<Json(PyList)>>,
      <<Prose>> }

SessionNext ==
    \/ \E f \in OpenForms, d \in SessionFiles, m \in SessionModels :
         ClickExtract(f, d, m, << >>)
    \/ \E f \in OpenForms, e \in Edits : ClickApply(f, e)

SessionInit ==
    /\ data = [entidad |-> Chars(<<"A">>)]
    /\ Unstarted
    /\ ExtractorIdle
    /\ SessionIdle

SessionSpec == SessionInit /\ [][SessionNext]_vars

PromptBuilt == ModelAsked /\ ex_prompt # NoValue

(***************************************************************************)
(* C23: the text put in the prompt of the model is the whole text,         *)
(* unchanged, when the text has 15000 characters or fewer, and the sample  *)
(* of its beginning, middle and end when it has 15001 characters or more.  *)
(***************************************************************************)
C23_SamplingThreshold ==
    PromptBuilt =>
      /\ Len(ex_text.val) <= SampleThreshold => ex_prompt.val = ex_text.val
      /\ Len(ex_text.val) >= SampleThreshold + 1 =>
           /\ ex_prompt.val = SampleOf(ex_text.val)
           /\ ex_prompt.val # ex_text.val

C23_Witness ==
    /\ PromptBuilt
    /\ ex_pc = "done"
    /\ Len(ex_text.val) = SampleThreshold
    /\ ex_prompt.val = ex_text.val

\* the boundary from above: a text of 15001 characters was sampled
C23_WitnessAbove ==
    /\ PromptBuilt
    /\ Len(ex_text.val) = SampleThreshold + 1
    /\ ex_prompt.val # ex_text.val

\* the length of the sample: 6000 + 6000 + 3000 characters and the markers
SampleLength == WindowLength + Len(MiddleMarker) + WindowLength + Len(FinalMarker) + HalfWindow

(***************************************************************************)
(* C28: for a text of more than 15000 characters, the sample put in the    *)
(* prompt is strictly shorter than the text, and has the same length       *)
(* whatever the length of the text.                                        *)
(***************************************************************************)
C28_SampleReduced ==
    (PromptBuilt /\ Len(ex_text.val) > SampleThreshold) =>
      /\ Len(ex_prompt.val) < Len(ex_text.val)
      /\ Len(ex_prompt.val) = SampleLength

\* the step is a click on "Aplicar JSON Editado"
Applies == se_steps' = se_steps + 1 /\ se_last'.handler = "apply"

(***************************************************************************)
(* C24: a click that applies a corrected JSON object to the cache merges   *)
(* it into the entry of the form's document type: every key of the         *)
(* correction has the corrected value, every key cached before and not in  *)
(* the correction, context_dump among them, keeps its value, no other key  *)
(* appears, and the entries of the other document types stay as they were; *)
(* an edited text that is not a JSON object changes nothing in the cache.  *)
(* This holds for every such click of every session.                       *)
(***************************************************************************)
C24_CacheMerge ==
    [][Applies =>
         LET doc_type == Forms[se_last'.key_prefix]
             cached == Get(extracted_data, doc_type, << >>)
         IN IF se_last'.outcome = "merged"
              THEN /\ DOMAIN extracted_data' = DOMAIN extracted_data \cup {doc_type}
                   /\ DOMAIN extracted_data'[doc_type]
                        = DOMAIN cached \cup DOMAIN se_last'.parsed
                   /\ \A k \in DOMAIN se_last'.parsed :
                        extracted_data'[doc_type][k] = se_last'.parsed[k]
                   /\ \A k \in DOMAIN cached \ DOMAIN se_last'.parsed :
                        extracted_data'[doc_type][k] = cached[k]
                   /\ \A t \in DOMAIN extracted_data \ {doc_type} :
                        extracted_data'[t] = extracted_data[t]
              ELSE extracted_data' = extracted_data]_vars

C24_Witness ==
    /\ se_last.handler = "apply"
    /\ se_last.outcome = "merged"
    /\ LET doc_type == Forms[se_last.key_prefix] IN
       /\ DOMAIN extracted_data \ {doc_type} # {}
       /\ "context_dump" \notin DOMAIN se_last.parsed
       /\ "context_dump" \in DOMAIN extracted_data[doc_type]
       /\ extracted_data[doc_type]["context_dump"].val # << >>
       /\ \E k \in DOMAIN se_last.parsed : extracted_data[doc_type][k] = se_last.parsed[k]
       /\ DOMAIN extracted_data[doc_type] \ (DOMAIN se_last.parsed \cup Reserved) # {}

(***************************************************************************)
(* The strategies that read the response of the model                      *)
(***************************************************************************)
\* the order the strategies are said to be tried in: the fenced JSON block,
\* the fenced block, the span of braces
ClaimedOrder == <<"fenced_json", "fenced", "brace">>

\* the extractor has asked the model and the model has answered
Answered ==
    /\ ex_pc \in {"attach", "done"}
    /\ ex_result # NoValue
    /\ "model" \in ex_invoked
    /\ ~ex_args.llm.raises

\* C25: when the model has answered, the fields are those of the first
\* strategy, in the order fenced JSON block, fenced block, span of braces,
\* whose match parses as JSON; the patterns are used when no strategy gives
\* an object.
C25_StrategyOrder ==
    Answered =>
        LET claimed == ParseLoopIn(ClaimedOrder, ex_args.llm.response, 1) IN
        IF claimed # NoValue /\ claimed.kind = "returned"
          THEN "patterns" \notin ex_invoked /\ DOMAIN ex_result = DOMAIN claimed.value
          ELSE "patterns" \in ex_invoked

\* lines 358-363: the value json.loads gave for the first pattern whose match
\* parses, before line 365 filters it; NoValue when no match parses
ParsedBy(response) ==
    LET hits == {i \in 1..Len(json_patterns) :
                   /\ SearchPattern(json_patterns[i], response).matched
                   /\ JsonLoads(SearchPattern(json_patterns[i], response).str).kind = "returned"}
    IN IF hits = {} THEN NoValue
       ELSE JsonLoads(SearchPattern(json_patterns[First(hits)], response).str).value

\* a value that is null, the string "null", or blank after trimming
NullOrBlank(v) ==
    \/ v.py = "None"
    \/ v.py = "str" /\ v.val = <<"n", "u", "l", "l">>
    \/ v.py = "str" /\ StrStrip(v.val) = << >>

\* the fields come from the object the model answered with
FromObject == Answered /\ "patterns" \notin ex_invoked

\* C26: a field of the object the model answered with is missing from the
\* result exactly when its value is null, the string "null", or blank after
\* trimming; every other field, a 0 or a false included, is kept.
C26_DroppedFields ==
    FromObject =>
        LET object == ParsedBy(ex_args.llm.response).items IN
        \A k \in DOMAIN object : k \notin DOMAIN ex_result <=> NullOrBlank(object[k])

(***************************************************************************)
(* The backends of the page-oriented and the tabular files                 *)
(***************************************************************************)
\* the library is present and reads every item without raising
Reads(b, items) == b.present /\ b.fails \notin 0..Len(items)

\* the text of one backend alone
PdfTextOf(backend, pages) ==
    Join(NL, IF backend = "fitz" THEN FitzParts(pages) ELSE PdfplumberParts(pages))

XlsxTextOf(backend, sheets) ==
    Join(NL, IF backend = "pandas" THEN PandasParts(sheets) ELSE OpenpyxlParts(sheets))

\* the text extractor has returned the text of a file of this kind
TextRead(kind) ==
    /\ ex_text # NoValue
    /\ KindOf(ex_args.file_type) = kind

\* C27: the text of a pdf or xlsx file is the output of one backend alone,
\* every page, column or row once and in order: that of the preferred
\* backend when it reads the file, and otherwise that of the fallback when
\* it reads the file, without the fragments the preferred backend had
\* collected before it failed.
C27_OneBackend ==
    /\ TextRead("pdf") =>
         LET pages == ex_args.uploaded_file.content.pages
             libs == ex_args.libs
         IN IF Reads(libs.fitz, pages) THEN ex_text.val = PdfTextOf("fitz", pages)
            ELSE Reads(libs.pdfplumber, pages) => ex_text.val = PdfTextOf("pdfplumber", pages)
    /\ TextRead("xlsx") =>
         LET sheets == ex_args.uploaded_file.content.sheets
             libs == ex_args.libs
         IN IF Reads(libs.pandas, sheets) THEN ex_text.val = XlsxTextOf("pandas", sheets)
            ELSE Reads(libs.openpyxl, sheets) => ex_text.val = XlsxTextOf("openpyxl", sheets)

\* the response holds pieces that together are the text of a JSON object
HoldsObject(response) ==
    \E i \in 1..Len(response) : \E j \in i..Len(response) :
        LET loaded == JsonLoads(SubSeq(response, i, j)) IN
        loaded.kind = "returned" /\ loaded.value.py = "dict"

\* the first match that parses is a JSON object
ObjectParsed(response) ==
    ParsedBy(response) # NoValue /\ ParsedBy(response).py = "dict"

\* C29 as stated: when the response of the model holds a span that parses as
\* a JSON object, the pattern extractor is not consulted.
C29_AnyObjectSpan ==
    (Answered /\ HoldsObject(ex_args.llm.response)) => "patterns" \notin ex_invoked

\* C29 (amended): when the first match of the strategies that parses as JSON
\* is an object, the extractor returns the fields of that object that are
\* not dropped and the pattern extractor is not consulted, also when every
\* field was dropped and the patterns would have found fields in the text.
C29_ParsedObjectDecides ==
    (Answered /\ ObjectParsed(ex_args.llm.response)) =>
        LET kept == Filtered(ParsedBy(ex_args.llm.response).items) IN
        /\ "patterns" \notin ex_invoked
        /\ DOMAIN ex_result = DOMAIN kept
        /\ \A k \in DOMAIN kept : ex_result[k] = kept[k]

\* every field of the object was dropped, and the patterns find a field in
\* the text
C29_Witness ==
    /\ Answered
    /\ ObjectParsed(ex_args.llm.response)
    /\ DOMAIN ParsedBy(ex_args.llm.response).items # {}
    /\ ex_result = << >>
    /\ ex_text.val # << >>
    /\ Len(ex_text.val) < MaxValueLength
    /\ ExtractWithPatterns(ex_text.val, ex_args.doc_type) # << >>

(***************************************************************************)
(* The end of generate_all                                                 *)
(***************************************************************************)
\* each of the five tasks has returned or raised
AllTasksEnded == \A t \in DocTypes : future[t] \in FinishedStates

\* generate_all has ended, by a return or by an exception
CallEnded == pc = "done"

\* whatever the outcomes of the tasks, the call ends once they have ended
BatchEnds == AllTasksEnded ~> CallEnded

\* C30: under fair scheduling, once each of the five tasks has returned or
\* raised, in whatever order and however many of them failed, generate_all
\* eventually returns a result.
C30_BatchReturns == AllTasksEnded ~> (pc = "done" /\ ret.kind = "returned")

====
